---- MODULE Spec2Model ----
(***************************************************************************)
(* Model of the MOD-EVAC-MS coordinator (src/backend): the State Store     *)
(* (state_manager.py), the Control Engine (control_worker.py), the serial  *)
(* command path (sensor_worker.py), the persisted logs (database.py), the  *)
(* API operations that mutate state (server.py), the Worker Fleet Manager  *)
(* (worker_manager.py) and the per-frame scheduling of the Vision Pipeline *)
(* (vision_worker.py).                                                     *)
(*                                                                         *)
(* Every thread of the program carries a continuation todo[t]: the         *)
(* sequence of steps it still has to run, each step being one atomic       *)
(* section of the source (a `with lock:` block, one queue operation, one   *)
(* serial write).  A call pushes the callee's steps in front of the        *)
(* caller's remaining steps.                                               *)
(***************************************************************************)
EXTENDS Integers, Sequences, FiniteSets, TLC

\* ------------------------------------------------------------------------
\* Program constants
\* ------------------------------------------------------------------------
SAFE == 0
CALLING == 1
MESSAGING == 2
DANGER == 3
EVACUATE == 4

AlertState == SAFE..EVACUATE

AlertName(a) == <<"SAFE", "CALLING", "MESSAGING", "DANGER", "EVACUATE">>[a + 1]

\* AlertState[name]
AlertLevel(name) == CHOOSE a \in AlertState : AlertName(a) = name

max_detections == 100
max_alerts == 50
event_queue_maxsize == 1000
manual_triggers_maxsize == 10

\* confidence is modelled in hundredths: 0.5 is 50
min_confidence == 50
water_danger_threshold == 70
water_warning_threshold == 40
tilt_threshold == 30
alert_debounce_seconds == 2
stale_alert_seconds == 600
gsm_max_retries == 5

critical_hazards == {"Fire", "Explosion", "Flood", "Collapsed Structure"}
warning_hazards == {"Smoke", "Falling Debris", "Landslide"}

\* GsmStatus
GSM_IDLE == 0
GSM_CALLING == 1
GSM_MESSAGING == 2

\* Python's None where the other values are numbers
None == -1

\* ------------------------------------------------------------------------
\* Bounds of the model
\* ------------------------------------------------------------------------
\* time.time() at start, in seconds: any value larger than every interval
\* the code compares against (last_alert_change starts at 0)
Epoch == 1000
\* seconds the clock may advance
MaxTime == 2
\* operations the environment starts (detections, telemetry lines, API calls)
MaxOps == 2
\* cameras added to the vision worker, each with its own _camera_loop thread
MaxCameras == 2
\* frames the first camera reads (every other camera reads one)
MaxFrames == 2
\* workers registered with the fleet
MaxWorkers == 1
\* workers of the fleet with two workers (the second one never answers)
MaxPool == 2

\* ------------------------------------------------------------------------
\* Threads
\* ------------------------------------------------------------------------
\* detector: a thread that calls state.add_detection (a camera loop running
\* local inference, or a worker session handler); sensor: the serial read
\* loop; api: the asyncio event loop running the HTTP handlers; control: the
\* control loop; gsm: the background thread _trigger_alert starts; cam<i>: the
\* _camera_loop thread of camera i; handler<w>: the _handle_worker thread of
\* the session of worker w; cleanup: the _cleanup_loop thread.
Cameras == {"cam" \o ToString(i) : i \in 1..MaxCameras}
WorkerIds == 1..MaxWorkers
PoolWorkers == 1..MaxPool
HandlerOf(w) == "handler" \o ToString(w)
Handlers == {HandlerOf(w) : w \in WorkerIds}
\* the handler thread of a second connection of worker w, accepted while its
\* first connection is still open (_listen_loop starts one thread per accept)
RehandlerOf(w) == "rehandler" \o ToString(w)
Rehandlers == {RehandlerOf(w) : w \in WorkerIds}
Threads == {"detector", "sensor", "api", "control", "gsm", "cleanup"} \cup Cameras \cup Handlers
               \cup Rehandlers

VARIABLES
    now,               \* time.time()
    nOps,              \* environment operations started so far
    current_alert,     \* StateManager._current_alert
    alert_history,     \* StateManager._alert_history
    event_queue,       \* StateManager.event_queue
    subscriber_lock,   \* StateManager._subscriber_lock: its holder or "none"
    subscribed,        \* ControlWorker._on_state_event is in _subscribers
    delivered,         \* the events the subscriber callback was invoked with
    detections,        \* StateManager._detections
    sensor_data,       \* StateManager._sensor_data
    manual_triggers,   \* StateManager._manual_triggers
    db_alerts,         \* table alerts of system.db
    db_detections,     \* table detections of system.db
    db_contacts,       \* table gsm_contacts of system.db
    last_alert_change, \* ControlWorker.last_alert_change
    gsm_status,        \* ControlWorker.gsm_status
    serial_open,       \* SensorWorker.serial is open
    serial_out,        \* the command lines written to the serial peer
    todo,              \* per thread: the steps it still has to run
    setAlertCall,      \* per thread: its latest set_alert call and how far it got
    lastSetBy,         \* the thread whose set_alert wrote current_alert last
    frame_counter,     \* VisionWorker.frame_counter
    frame_count,       \* per camera: the local frame_count of its _camera_loop
    workers,           \* WorkerManager.workers: the worker ids, in insertion order
    pending_tasks,     \* WorkerManager.pending_tasks: frame_id -> {event, result}
    event_set,         \* per camera: the threading.Event of its dispatch is set
    current_worker_index, \* WorkerManager.current_worker_index
    task_inbox,        \* per worker: the inference_task messages sent to it
    result_inbox,      \* per worker: its inference_result messages not yet read
    crashed,           \* the camera threads an uncaught exception ended
    frameLog,          \* per camera and frame: what was decided and what came of it
    last_seen,         \* per worker: the last_seen of its entry in WorkerManager.workers
    devices,           \* StateManager._devices: device id -> status
    listing,           \* the latest reply of GET /api/workers and when it was made
    connections,       \* ConnectionManager.active_connections: the connected clients
    received,          \* per dashboard client: the messages sent to it, in order
    issued,            \* the set_alert calls, in the order of their locked blocks
    storeLog,          \* the contents the store had during the get_full_state call under way
    reply,             \* the latest reply of GET /api/status
    observers,         \* the callbacks subscribed after the Control Engine's, in order
    notified,          \* per observer: the events it was invoked with
    session,           \* per worker: the state of its connection (NoSession)
    running,           \* per component: the running flag its start() set and its stop() clears
    listener,          \* the listening socket of _listen_loop: "listening" or "closed"
    stopped,           \* the components whose stop() lifespan called, in call order
    port_available,    \* the serial port can be opened
    gsm_contacts,      \* StateManager._gsm_contacts
    access_code,       \* StateManager._access_code
    verified,          \* the verify_access_code calls made: argument and result of each
    worker_conn,       \* per worker: the handler thread of self.workers[w]['conn']
    worker_id          \* per handler thread: the local worker_id of _handle_worker

vars == <<now, nOps, current_alert, alert_history, event_queue, subscriber_lock,
          subscribed, delivered, detections, sensor_data, manual_triggers,
          db_alerts, db_detections, db_contacts, last_alert_change, gsm_status,
          serial_open, serial_out, todo, setAlertCall, lastSetBy, frame_counter,
          frame_count, workers, pending_tasks, event_set, current_worker_index,
          task_inbox, result_inbox, crashed, frameLog,
          last_seen, devices, listing,
          connections, received, issued, storeLog, reply,
          observers, notified,
          session, running, listener, stopped, port_available,
          gsm_contacts, access_code, verified,
          worker_conn, worker_id>>

storeVars == <<current_alert, alert_history, event_queue, subscriber_lock,
               subscribed, delivered, detections, sensor_data, manual_triggers>>
dbVars == <<db_alerts, db_detections, db_contacts>>
controlVars == <<last_alert_change, gsm_status>>
serialVars == <<serial_open, serial_out>>
ghostVars == <<setAlertCall, lastSetBy>>
fleetVars == <<frame_counter, frame_count, workers, pending_tasks, event_set,
               current_worker_index, task_inbox, result_inbox, crashed, frameLog>>

registryVars == <<last_seen, devices, listing>>

dashVars == <<connections, received, issued, storeLog, reply>>

subscriberVars == <<observers, notified>>

lifeVars == <<session, running, listener, stopped, port_available>>

pairingVars == <<gsm_contacts, access_code, verified>>

connVars == <<worker_conn, worker_id>>

\* ------------------------------------------------------------------------
\* Helpers
\* ------------------------------------------------------------------------
\* s[-n:]
LastN(s, n) == IF Len(s) > n THEN SubSeq(s, Len(s) - n + 1, Len(s)) ELSE s

Abs(x) == IF x < 0 THEN -x ELSE x

HeadOp(t, name) == todo[t] # <<>> /\ Head(todo[t]).op = name
Rest(t) == Tail(todo[t])
Continue(t, steps) == todo' = [todo EXCEPT ![t] = steps \o Rest(t)]

\* ------------------------------------------------------------------------
\* Steps
\* ------------------------------------------------------------------------
OpSetAlert(st, r) == [op |-> "set_alert", state |-> st, reason |-> r]
OpPut(table, row, ev) == [op |-> "put", table |-> table, row |-> row, event |-> ev]
OpDeliver(ev) == [op |-> "deliver", event |-> ev]
OpRelease == [op |-> "release"]
OpAddDetection(cls, conf, frame) ==
    [op |-> "add_detection", class |-> cls, confidence |-> conf, frame_id |-> frame]
OpUpdateSensor(raining, earthquake) ==
    [op |-> "update_sensor", raining |-> raining, earthquake |-> earthquake]
OpManual(type, details) == [op |-> "manual", type |-> type, details |-> details]
OpHandleDetection(data) == [op |-> "handle_detection", data |-> data]
OpHandleSensor(data) == [op |-> "handle_sensor", data |-> data]
OpTrigger(a, r) == [op |-> "trigger", alert |-> a, reason |-> r]
OpLed(a) == [op |-> "led", alert |-> a]
OpGsm(r, cat, voice, spawn) ==
    [op |-> "gsm", reason |-> r, category |-> cat, voice |-> voice, spawn |-> spawn]
OpGsmCall(list, i, retries, r, cat, voice) ==
    [op |-> "gsm_call", list |-> list, i |-> i, retries |-> retries,
     reason |-> r, category |-> cat, voice |-> voice]
OpSms(msg, cat) == [op |-> "sms", message |-> msg, category |-> cat]
OpSmsSend(list, i, msg) == [op |-> "sms_send", list |-> list, i |-> i, message |-> msg]
OpCtlTop == [op |-> "ctl_top"]
OpCtlStale(t0) == [op |-> "ctl_stale", now |-> t0]

\* StateManager._emit(event_type, data): the queue put, then the callbacks
Event(type, data) == [type |-> type, data |-> data]
EmitSteps(ev) == <<OpPut("none", [none |-> TRUE], ev), OpDeliver(ev)>>

\* ------------------------------------------------------------------------
\* State Store (state_manager.py)
\* ------------------------------------------------------------------------
\* the detections get_full_state asks for
full_state_limit == 10

\* what the four getters of get_full_state would return if they were all
\* called at this instant
StoreContents ==
    [sensor |-> sensor_data,
     alert |-> [state |-> AlertName(current_alert), value |-> current_alert],
     devices |-> devices,
     detections |-> LastN(detections, full_state_limit)]

\* a get_full_state call is under way
Snapshotting == \E t \in Threads : HeadOp(t, "get_full_state")

\* the store's contents after a mutation join the log of the call under way
Observe(contents) == IF Snapshotting THEN storeLog \cup {contents} ELSE storeLog

\* one set_alert call, as `issued` records it
AlertCall(st, reason) == [state |-> AlertName(st), value |-> st, reason |-> reason]

\* a queue that would make room by dropping its oldest event
DropOldestEvent(q, ev) ==
    IF Len(q) < event_queue_maxsize THEN Append(q, ev) ELSE Append(Tail(q), ev)

\* event_queue.put_nowait(event), a full queue dropping the event
QueuePut(q, ev) == IF Len(q) < event_queue_maxsize THEN Append(q, ev) ELSE q

\* a store that would let a call lower nothing: the higher level stays
KeepHigherAlert(old, st) == IF st > old THEN st ELSE old

\* a log that would record every call, also one that changes nothing
LogEveryCall(hist, old, st, reason, ts) ==
    LastN(Append(hist, [from |-> AlertName(old), to |-> AlertName(st),
                        reason |-> reason, timestamp |-> ts]), max_alerts)

\* set_alert, inside _alert_lock: the value written to _current_alert
NewAlert(old, st) == st

\* set_alert, inside _alert_lock: the transition log after the call
NewHistory(hist, old, st, reason, ts) ==
    IF old # st
    THEN LastN(Append(hist, [from |-> AlertName(old), to |-> AlertName(st),
                             reason |-> reason, timestamp |-> ts]), max_alerts)
    ELSE hist

AlertEvent(st, reason) ==
    Event("alert_change", [state |-> AlertName(st), value |-> st, reason |-> reason])

\* what set_alert does after it released _alert_lock: log_alert, then _emit
AfterSetAlert(st, reason) ==
    <<OpPut("alerts", [state |-> AlertName(st), reason |-> reason], AlertEvent(st, reason)),
      OpDeliver(AlertEvent(st, reason))>>

\* set_alert: the `with self._alert_lock:` block
SetAlertLocked(t) ==
    /\ HeadOp(t, "set_alert")
    /\ LET m == Head(todo[t]) IN
        /\ current_alert' = NewAlert(current_alert, m.state)
        /\ alert_history' = NewHistory(alert_history, current_alert, m.state, m.reason, now)
        /\ Continue(t, AfterSetAlert(m.state, m.reason))
        /\ setAlertCall' = [setAlertCall EXCEPT ![t] = [state |-> m.state, status |-> "applied"]]
        /\ lastSetBy' = t
    /\ UNCHANGED <<connVars, pairingVars, lifeVars, subscriberVars, connections, received, reply,
                   registryVars, fleetVars,
                   now, nOps, event_queue, subscriber_lock, subscribed, delivered,
                   detections, sensor_data, manual_triggers, dbVars, controlVars,
                   serialVars>>
    /\ issued' = Append(issued, AlertCall(Head(todo[t]).state, Head(todo[t]).reason))
    /\ storeLog' = Observe(StoreContents')

\* the persisted log row (log_alert, log_detection) a mutation writes after
\* it released its lock, and the first half of _emit: event_queue.put_nowait
Put(t) ==
    /\ HeadOp(t, "put")
    /\ LET m == Head(todo[t]) IN
        /\ db_alerts' = IF m.table = "alerts" THEN Append(db_alerts, m.row) ELSE db_alerts
        /\ db_detections' = IF m.table = "detections" THEN Append(db_detections, m.row)
                            ELSE db_detections
        /\ event_queue' = QueuePut(event_queue, m.event)
        /\ Continue(t, <<>>)
    /\ UNCHANGED <<connVars, pairingVars, lifeVars, subscriberVars, dashVars, registryVars, fleetVars,
                   now, nOps,
                   current_alert, alert_history, subscriber_lock, subscribed, delivered,
                   detections, sensor_data, manual_triggers, db_contacts, controlVars,
                   serialVars, ghostVars>>

\* ControlWorker._on_state_event: the steps the callback runs for an event
\* (_handle_detection returns at once, before it reads the alert, for a
\* confidence below min_confidence)
CallbackSteps(ev) ==
    IF ev.type = "detection"
    THEN (IF ev.data.confidence < min_confidence THEN <<>>
          ELSE <<OpHandleDetection(ev.data)>>)
    ELSE IF ev.type = "sensor_update" THEN <<OpHandleSensor(ev.data)>>
    ELSE <<>>

\* ControlWorker._handle_detection: `confidence < 0.5` raises TypeError for
\* a confidence that is None
CallbackRaises(ev) == ev.type = "detection" /\ ev.data.confidence = None

OpNotify(ev, i) == [op |-> "notify", event |-> ev, i |-> i]

\* an _emit without the try around the callback: an exception would end the
\* loop over the subscribers
PropagateException(raised, rest) == IF raised THEN <<>> ELSE rest

\* _emit: what follows a callback in the loop over the subscribers, the
\* exception it raised being caught and printed
AfterCallback(raised, rest) == rest

\* the second half of _emit: `with self._subscriber_lock:` and the callbacks.
\* _subscriber_lock is a threading.Lock: the step waits while any thread,
\* the caller included, holds it.  A callback that runs no step of its own
\* returns within this step; otherwise the lock is held until Release.
Deliver(t) ==
    /\ HeadOp(t, "deliver")
    /\ subscriber_lock = "none"
    /\ LET ev == Head(todo[t]).event
           own == IF subscribed THEN CallbackSteps(ev) ELSE <<>>
           rest == IF observers = <<>> THEN <<>> ELSE <<OpNotify(ev, 1)>>
           steps == own \o AfterCallback(subscribed /\ CallbackRaises(ev), rest)
       IN
        /\ delivered' = IF subscribed THEN Append(delivered, ev) ELSE delivered
        /\ IF steps = <<>>
           THEN /\ Continue(t, <<>>)
                /\ UNCHANGED subscriber_lock
           ELSE /\ Continue(t, steps \o <<OpRelease>>)
                /\ subscriber_lock' = t
        /\ setAlertCall' = IF ev.type = "alert_change"
                           THEN [setAlertCall EXCEPT ![t].status = "returned"]
                           ELSE setAlertCall
    /\ UNCHANGED <<connVars, pairingVars, lifeVars, subscriberVars, dashVars, registryVars, fleetVars,
                   now, nOps,
                   current_alert, alert_history, event_queue, subscribed, detections,
                   sensor_data, manual_triggers, dbVars, controlVars, serialVars, lastSetBy>>

\* the observers subscribe may add
MaxObservers == 2

\* subscribe(callback), for a callback that raises on every event or on none
Subscribe(t) ==
    /\ t = "api"
    /\ todo[t] = <<>>
    /\ subscriber_lock = "none"
    /\ Len(observers) < MaxObservers
    /\ \E raises \in BOOLEAN :
        observers' = Append(observers, [raises |-> raises, since |-> Len(delivered)])
    /\ notified' = Append(notified, <<>>)
    /\ UNCHANGED <<connVars, pairingVars, lifeVars, dashVars, registryVars, fleetVars, now, nOps,
                   storeVars, dbVars,
                   controlVars, serialVars, todo, ghostVars>>

\* _emit: the callback of observer i is invoked inside the try
Notify(t) ==
    /\ HeadOp(t, "notify")
    /\ LET m == Head(todo[t])
           rest == IF m.i < Len(observers) THEN <<OpNotify(m.event, m.i + 1)>> ELSE <<>>
       IN
        /\ notified' = [notified EXCEPT ![m.i] = Append(@, m.event)]
        /\ Continue(t, AfterCallback(observers[m.i].raises, rest))
    /\ UNCHANGED <<connVars, pairingVars, lifeVars, observers, dashVars, registryVars, fleetVars, now,
                   nOps, storeVars,
                   dbVars, controlVars, serialVars, ghostVars>>

\* the end of _emit's `with self._subscriber_lock:` block
Release(t) ==
    /\ HeadOp(t, "release")
    /\ subscriber_lock' = "none"
    /\ Continue(t, <<>>)
    /\ UNCHANGED <<connVars, pairingVars, lifeVars, subscriberVars, dashVars, registryVars, fleetVars,
                   now, nOps,
                   current_alert, alert_history, event_queue, subscribed, delivered,
                   detections, sensor_data, manual_triggers, dbVars, controlVars,
                   serialVars, ghostVars>>

\* a ring that would refuse a detection once it is full
KeepOldestDetections(ring, d) == IF Len(ring) < max_detections THEN Append(ring, d) ELSE ring

\* add_detection: the ring after the `with self._detection_lock:` block
AddToRing(ring, d) == LastN(Append(ring, d), max_detections)

\* get_detections(limit), for limit >= 1
GetDetections(ring, limit) == LastN(ring, limit)

DetectionEvent(m) ==
    Event("detection", [class |-> m.class, confidence |-> m.confidence,
                        frame_id |-> m.frame_id])

\* add_detection (bbox and timestamp are read by no decision and are left out)
AddDetection(t) ==
    /\ HeadOp(t, "add_detection")
    /\ LET m == Head(todo[t])
           d == [class |-> m.class, confidence |-> m.confidence, frame_id |-> m.frame_id]
       IN
        /\ detections' = AddToRing(detections, d)
        /\ Continue(t, <<OpPut("detections",
                               [class |-> m.class, confidence |-> m.confidence,
                                frame_id |-> m.frame_id],
                               DetectionEvent(m)),
                         OpDeliver(DetectionEvent(m))>>)
    /\ UNCHANGED <<connVars, pairingVars, lifeVars, subscriberVars, connections, received, issued,
                   reply, registryVars,
                   fleetVars, now, nOps, current_alert, alert_history, event_queue,
                   subscriber_lock, subscribed, delivered, sensor_data, manual_triggers,
                   dbVars, controlVars, serialVars, ghostVars>>
    /\ storeLog' = Observe(StoreContents')

\* update_sensor: the reading after the `with self._sensor_lock:` block
\* (fire, accel and timestamp are read by no decision and are left out)
NewSensor(old, raining, earthquake) ==
    [raining |-> IF raining # None THEN raining ELSE old.raining,
     earthquake |-> IF earthquake # <<>> THEN earthquake ELSE old.earthquake]

\* update_sensor, then _emit("sensor_update", self.get_sensor())
UpdateSensor(t) ==
    /\ HeadOp(t, "update_sensor")
    /\ LET m == Head(todo[t])
           new == NewSensor(sensor_data, m.raining, m.earthquake)
       IN
        /\ sensor_data' = new
        /\ Continue(t, EmitSteps(Event("sensor_update", new)))
    /\ UNCHANGED <<connVars, pairingVars, lifeVars, subscriberVars, connections, received, issued,
                   reply, registryVars,
                   fleetVars, now, nOps, current_alert, alert_history, event_queue,
                   subscriber_lock, subscribed, delivered, detections, manual_triggers,
                   dbVars, controlVars, serialVars, ghostVars>>
    /\ storeLog' = Observe(StoreContents')

\* _manual_triggers.put_nowait(action), a full queue dropping the action
ManualPut(q, action) == IF Len(q) < manual_triggers_maxsize THEN Append(q, action) ELSE q

\* trigger_manual_action (the action's timestamp is read nowhere and is left out)
TriggerManualAction(t) ==
    /\ HeadOp(t, "manual")
    /\ LET m == Head(todo[t])
           action == [type |-> m.type, details |-> m.details]
       IN
        /\ manual_triggers' = ManualPut(manual_triggers, action)
        /\ Continue(t, EmitSteps(Event("manual_trigger", action)))
    /\ UNCHANGED <<connVars, pairingVars, lifeVars, subscriberVars, dashVars, registryVars, fleetVars,
                   now, nOps,
                   current_alert, alert_history, event_queue, subscriber_lock, subscribed,
                   delivered, detections, sensor_data, dbVars, controlVars, serialVars,
                   ghostVars>>

\* ------------------------------------------------------------------------
\* Serial command path (sensor_worker.py)
\* ------------------------------------------------------------------------
\* SensorWorker.send_command: the line is written only to an open port
SendCommand(out, open, cmd) == IF open THEN Append(out, cmd) ELSE out

\* ------------------------------------------------------------------------
\* Control Engine (control_worker.py)
\* ------------------------------------------------------------------------
\* the reason texts the handlers format
DetectedReason(cls) == "Detected: " \o cls
WarningReason(cls) == "Warning: " \o cls
PrecipitationReason(r) == "Precipitation level critical: " \o ToString(r) \o ".0%"
ShowersReason(r) == "Showers detected: " \o ToString(r) \o ".0%"
\* (the degree sign that ends the text is written deg)
VibrationReason(m) == "Ground vibration detected: " \o ToString(m) \o ".0deg"

HazardClasses == {"Fire", "Smoke", "Flood", "Falling Debris", "Landslide", "Explosion",
                  "Collapsed Structure", "Industrial Accident"}

\* the words _get_category_for_hazard searches for that occur in a class name
\* in lower case
ClassWords(cls) ==
    CASE cls = "Fire" -> {"fire"}
      [] cls = "Smoke" -> {"smoke"}
      [] cls = "Flood" -> {"flood"}
      [] cls = "Falling Debris" -> {"debris"}
      [] cls = "Landslide" -> {"landslide"}
      [] cls = "Explosion" -> {"explosion"}
      [] cls = "Collapsed Structure" -> {"structure"}
      [] OTHER -> {}

\* {w : w in reason.lower()} for the words _get_category_for_hazard searches
\* for, over the reason texts of this model
WordsIn(reason) ==
    UNION {ClassWords(cls) : cls \in {c \in HazardClasses :
                                reason \in {DetectedReason(c), WarningReason(c)}}}
    \cup (IF \E r \in 0..100 : reason = PrecipitationReason(r) THEN {"precipitation"} ELSE {})
    \cup (IF \E m \in 0..400 : reason = VibrationReason(m) THEN {"vibration"} ELSE {})

\* _get_category_for_hazard
CategoryForHazard(reason) ==
    LET r == WordsIn(reason) IN
    IF r \cap {"fire", "smoke", "explosion"} # {}
    THEN (IF r \cap {"fire", "explosion"} # {} THEN "fire" ELSE "smoke")
    ELSE IF r \cap {"flood", "rain", "precipitation"} # {} THEN "rain"
    ELSE IF r \cap {"debris", "landslide", "structure", "vibration"} # {} THEN "debris"
    ELSE "general"

\* a _handle_detection whose tests of the current alert admit the level itself
TriggerAtLevel(data, cur) ==
    IF data.confidence < min_confidence THEN <<>>
    ELSE IF data.class \in critical_hazards
         THEN (IF cur <= DANGER THEN <<OpTrigger(DANGER, DetectedReason(data.class))>> ELSE <<>>)
    ELSE IF data.class \in warning_hazards
         THEN (IF cur <= CALLING THEN <<OpTrigger(CALLING, WarningReason(data.class))>> ELSE <<>>)
    ELSE <<>>

\* _handle_detection: the trigger it decides on, given the alert it read
DetectionTrigger(data, cur) ==
    IF data.confidence < min_confidence THEN <<>>
    ELSE IF data.class \in critical_hazards
         THEN (IF cur < DANGER THEN <<OpTrigger(DANGER, DetectedReason(data.class))>> ELSE <<>>)
    ELSE IF data.class \in warning_hazards
         THEN (IF cur < CALLING THEN <<OpTrigger(CALLING, WarningReason(data.class))>> ELSE <<>>)
    ELSE <<>>

\* _handle_detection, up to its call of _trigger_alert
HandleDetection(t) ==
    /\ HeadOp(t, "handle_detection")
    /\ Continue(t, DetectionTrigger(Head(todo[t]).data, current_alert))
    /\ UNCHANGED <<connVars, pairingVars, lifeVars, subscriberVars, dashVars, registryVars, fleetVars,
                   now, nOps, storeVars,
                   dbVars, controlVars, serialVars, ghostVars>>

\* _handle_sensor: the triggers it decides on, in order, given the alert it read
SensorTriggers(data, cur) ==
    LET raining == data.raining
        tilt == IF data.earthquake = <<>> THEN 0
                ELSE Abs(data.earthquake[1]) + Abs(data.earthquake[2])
    IN
    (IF raining >= water_danger_threshold
     THEN (IF cur < DANGER THEN <<OpTrigger(DANGER, PrecipitationReason(raining))>> ELSE <<>>)
     ELSE IF raining >= water_warning_threshold
          THEN (IF cur < CALLING THEN <<OpTrigger(CALLING, ShowersReason(raining))>> ELSE <<>>)
     ELSE <<>>)
    \o
    (IF tilt > tilt_threshold /\ cur < CALLING
     THEN <<OpTrigger(CALLING, VibrationReason(tilt))>> ELSE <<>>)

\* _handle_sensor, up to its calls of _trigger_alert
HandleSensor(t) ==
    /\ HeadOp(t, "handle_sensor")
    /\ Continue(t, SensorTriggers(Head(todo[t]).data, current_alert))
    /\ UNCHANGED <<connVars, pairingVars, lifeVars, subscriberVars, dashVars, registryVars, fleetVars,
                   now, nOps, storeVars,
                   dbVars, controlVars, serialVars, ghostVars>>

\* _trigger_alert: the debounce test
Debounced(t0, last) == t0 - last < alert_debounce_seconds

\* _trigger_alert after the debounce test: set_alert, the LED command, the
\* hazard_detected emission and, from DANGER on, the GSM thread
TriggerSteps(a, reason) ==
    <<OpSetAlert(a, reason), OpLed(a)>>
    \o EmitSteps(Event("hazard_detected", [type |-> AlertName(a), reason |-> reason]))
    \o (IF a >= DANGER THEN <<OpGsm(reason, CategoryForHazard(reason), TRUE, TRUE)>>
        ELSE <<>>)

\* _trigger_alert, up to its call of state.set_alert
TriggerAlert(t) ==
    /\ HeadOp(t, "trigger")
    /\ LET m == Head(todo[t]) IN
        IF Debounced(now, last_alert_change)
        THEN /\ Continue(t, <<>>)
             /\ UNCHANGED last_alert_change
        ELSE /\ last_alert_change' = now
             /\ Continue(t, TriggerSteps(m.alert, m.reason))
    /\ UNCHANGED <<connVars, pairingVars, lifeVars, subscriberVars, dashVars, registryVars, fleetVars,
                   now, nOps, storeVars,
                   dbVars, gsm_status, serialVars, ghostVars>>

\* _send_led_command
SendLedCommand(t) ==
    /\ HeadOp(t, "led")
    /\ serial_out' = SendCommand(serial_out, serial_open,
                                 [cmd |-> "set_alert", alert |-> Head(todo[t]).alert])
    /\ Continue(t, <<>>)
    /\ UNCHANGED <<connVars, pairingVars, lifeVars, subscriberVars, dashVars, registryVars, fleetVars,
                   now, nOps, storeVars,
                   dbVars, controlVars, serial_open, ghostVars>>

\* [c for c in contacts if c.get("category", "general") in ["general", category]]
RECURSIVE DispatchList(_, _)
\* get_gsm_contacts of database.py.  db_contacts keeps the rows of the table
\* grouped by their mode column, in insertion order.  The rows are appended
\* to contacts[row["mode"]] of {"sms": [], "call": []}: a row of any other
\* mode raises KeyError inside the try, and the except returns both lists
\* empty
DbGetGsmContacts ==
    IF \A mode \in DOMAIN db_contacts : mode \in {"sms", "call"} \/ db_contacts[mode] = <<>>
    THEN [sms |-> db_contacts.sms, call |-> db_contacts.call]
    ELSE [sms |-> <<>>, call |-> <<>>]

DispatchList(contacts, category) ==
    IF contacts = <<>> THEN <<>>
    ELSE IF Head(contacts).category \in {"general", category}
         THEN <<Head(contacts)>> \o DispatchList(Tail(contacts), category)
         ELSE DispatchList(Tail(contacts), category)

\* _trigger_gsm_emergency up to its first call attempt; with spawn, the
\* threading.Thread(target=self._trigger_gsm_emergency).start() of _trigger_alert
TriggerGsmEmergency(t) ==
    /\ HeadOp(t, "gsm")
    /\ LET m == Head(todo[t])
           list == DispatchList(DbGetGsmContacts.call, m.category)
       IN
        IF m.spawn
        THEN /\ todo["gsm"] = <<>>
             /\ todo' = [todo EXCEPT ![t] = Rest(t),
                                     !["gsm"] = <<[m EXCEPT !.spawn = FALSE]>>]
             /\ UNCHANGED gsm_status
        ELSE IF list = <<>>
        THEN /\ gsm_status' = GSM_IDLE
             /\ Continue(t, <<>>)
        ELSE /\ gsm_status' = GSM_CALLING
             /\ Continue(t, <<OpGsmCall(list, 1, 0, m.reason, m.category, m.voice)>>)
    /\ UNCHANGED <<connVars, pairingVars, lifeVars, subscriberVars, dashVars, registryVars, fleetVars,
                   now, nOps, storeVars,
                   dbVars, last_alert_change, serialVars, ghostVars>>

\* what follows one call attempt to list[i]: after a send that succeeded the
\* next contact; after a failed one the same contact until gsm_max_retries
\* attempts failed; after the last contact the SOS SMS
AfterCallAttempt(m, sent) ==
    LET retries == IF sent THEN m.retries ELSE m.retries + 1
        again == ~sent /\ retries < gsm_max_retries
    IN
    IF again THEN <<[m EXCEPT !.retries = retries]>>
    ELSE IF m.i < Len(m.list) THEN <<[m EXCEPT !.i = m.i + 1, !.retries = 0]>>
    ELSE <<OpSms("SOS: " \o m.reason, m.category)>>

\* _trigger_gsm_emergency: one pass of the `while retries < ... and not answered`
\* loop (the sleeps are waits of the thread and change no state)
GsmCallAttempt(t) ==
    /\ HeadOp(t, "gsm_call")
    /\ LET m == Head(todo[t])
           cmd == [cmd |-> "gsm_call", number |-> m.list[m.i].number,
                   robot_talk |-> m.voice, msg |-> m.reason]
       IN
        /\ serial_out' = SendCommand(serial_out, serial_open, cmd)
        /\ Continue(t, AfterCallAttempt(m, serial_open))
    /\ UNCHANGED <<connVars, pairingVars, lifeVars, subscriberVars, dashVars, registryVars, fleetVars,
                   now, nOps, storeVars,
                   dbVars, controlVars, serial_open, ghostVars>>

\* _send_gsm_message up to its first send
SendGsmMessage(t) ==
    /\ HeadOp(t, "sms")
    /\ LET m == Head(todo[t])
           list == DispatchList(DbGetGsmContacts.sms, m.category)
       IN
        IF list = <<>>
        THEN /\ gsm_status' = GSM_IDLE
             /\ Continue(t, <<>>)
        ELSE /\ gsm_status' = GSM_MESSAGING
             /\ Continue(t, <<OpSmsSend(list, 1, m.message)>>)
    /\ UNCHANGED <<connVars, pairingVars, lifeVars, subscriberVars, dashVars, registryVars, fleetVars,
                   now, nOps, storeVars,
                   dbVars, last_alert_change, serialVars, ghostVars>>

\* contact.get("message") or message
SmsText(contact, message) == IF contact.message # "" THEN contact.message ELSE message

\* _send_gsm_message: one pass of its `for contact in dispatch_list` loop, the
\* last one followed by gsm_status = IDLE
SmsSend(t) ==
    /\ HeadOp(t, "sms_send")
    /\ LET m == Head(todo[t])
           cmd == [cmd |-> "gsm_sms", number |-> m.list[m.i].number,
                   message |-> SmsText(m.list[m.i], m.message)]
       IN
        /\ serial_out' = SendCommand(serial_out, serial_open, cmd)
        /\ IF m.i < Len(m.list)
           THEN /\ Continue(t, <<[m EXCEPT !.i = m.i + 1]>>)
                /\ UNCHANGED gsm_status
           ELSE /\ Continue(t, <<>>)
                /\ gsm_status' = GSM_IDLE
    /\ UNCHANGED <<connVars, pairingVars, lifeVars, subscriberVars, dashVars, registryVars, fleetVars,
                   now, nOps, storeVars,
                   dbVars, last_alert_change, serial_open, ghostVars>>

\* set_safe_mode
SetSafeModeSteps == <<OpSetAlert(SAFE, "Manual reset"), OpLed(SAFE)>>

\* set_evacuate_mode
SetEvacuateModeSteps(exit_zone) ==
    <<OpSetAlert(EVACUATE, "Evacuation to zone " \o ToString(exit_zone)), OpLed(EVACUATE),
      OpGsm("EVACUATION INITIATED", "general", TRUE, FALSE)>>

\* a _handle_manual_trigger whose earthquake branch leaves the category at
\* its default
EarthquakeAsGeneral(trigger) ==
    CASE trigger.type = "call_fire" ->
            <<OpGsm("FIRE EMERGENCY IN PROGRESS", "fire", TRUE, FALSE), OpLed(DANGER),
              OpSetAlert(DANGER, "Manual Fire Alert")>>
      [] trigger.type = "call_police" ->
            <<OpGsm("POLICE ASSISTANCE REQUIRED", "general", TRUE, FALSE), OpLed(CALLING),
              OpSetAlert(CALLING, "Manual Authority Call")>>
      [] trigger.type = "earthquake_alert" ->
            <<OpGsm("MAJOR EARTHQUAKE DETECTED. SEEK COVER.", "general", TRUE, FALSE),
              OpLed(EVACUATE), OpSetAlert(EVACUATE, "Manual Earthquake Response")>>
      [] trigger.type = "sms_broadcast" -> <<OpSms(trigger.details, "general")>>
      [] trigger.type = "set_safe" -> SetSafeModeSteps
      [] OTHER -> <<>>

\* _handle_manual_trigger
ManualTriggerSteps(trigger) ==
    CASE trigger.type = "call_fire" ->
            <<OpGsm("FIRE EMERGENCY IN PROGRESS", "fire", TRUE, FALSE), OpLed(DANGER),
              OpSetAlert(DANGER, "Manual Fire Alert")>>
      [] trigger.type = "call_police" ->
            <<OpGsm("POLICE ASSISTANCE REQUIRED", "general", TRUE, FALSE), OpLed(CALLING),
              OpSetAlert(CALLING, "Manual Authority Call")>>
      [] trigger.type = "earthquake_alert" ->
            <<OpGsm("MAJOR EARTHQUAKE DETECTED. SEEK COVER.", "debris", TRUE, FALSE),
              OpLed(EVACUATE), OpSetAlert(EVACUATE, "Manual Earthquake Response")>>
      [] trigger.type = "sms_broadcast" -> <<OpSms(trigger.details, "general")>>
      [] trigger.type = "set_safe" -> SetSafeModeSteps
      [] OTHER -> <<>>

\* _control_loop: the stale-alert test
StaleAlert(cur, t0, last) == cur > 0 /\ t0 - last > stale_alert_seconds

\* _control_loop: what one pass runs after its manual-trigger part: the
\* stale-alert check with the `now` read at the top of the pass, then the
\* next pass
StaleCheckSteps(t0) ==
    IF StaleAlert(current_alert, t0, last_alert_change)
    THEN SetSafeModeSteps \o <<OpCtlTop>>
    ELSE <<OpCtlTop>>

\* _control_loop: one pass up to its first call that takes a step of its own:
\* now = time.time(); a manual trigger taken from the queue is handled and the
\* stale-alert check follows it (ControlLoopStale); with an empty queue the
\* stale-alert check is made at once
ControlLoopTop(t) ==
    /\ HeadOp(t, "ctl_top")
    /\ IF manual_triggers # <<>>
       THEN /\ manual_triggers' = Tail(manual_triggers)
            /\ Continue(t, ManualTriggerSteps(Head(manual_triggers)) \o <<OpCtlStale(now)>>)
       ELSE /\ UNCHANGED manual_triggers
            /\ Continue(t, StaleCheckSteps(now))
    /\ UNCHANGED <<connVars, pairingVars, lifeVars, subscriberVars, dashVars, registryVars, fleetVars,
                   now, nOps,
                   current_alert, alert_history, event_queue, subscriber_lock, subscribed,
                   delivered, detections, sensor_data, dbVars, controlVars, serialVars,
                   ghostVars>>

\* _control_loop: the stale-alert check of a pass that handled a manual trigger
ControlLoopStale(t) ==
    /\ HeadOp(t, "ctl_stale")
    /\ Continue(t, StaleCheckSteps(Head(todo[t]).now))
    /\ UNCHANGED <<connVars, pairingVars, lifeVars, subscriberVars, dashVars, registryVars, fleetVars,
                   now, nOps, storeVars,
                   dbVars, controlVars, serialVars, ghostVars>>

\* ------------------------------------------------------------------------
\* The environment: detections, telemetry lines, API calls, the clock
\* ------------------------------------------------------------------------
Idle(t) == todo[t] = <<>>
Start(t, steps) ==
    /\ Idle(t)
    /\ nOps < MaxOps
    /\ nOps' = nOps + 1
    /\ todo' = [todo EXCEPT ![t] = steps]

\* the detections the model injects: (class, confidence in hundredths)
DetectionInputs == {<<"Fire", 91>>, <<"Smoke", 70>>, <<"Fire", 30>>}

\* a thread calls state.add_detection (vision_worker.py:161, worker_manager.py:156)
Detect(t) ==
    /\ t = "detector"
    /\ \E d \in DetectionInputs : Start(t, <<OpAddDetection(d[1], d[2], 1)>>)
    /\ UNCHANGED <<connVars, pairingVars, lifeVars, subscriberVars, dashVars, registryVars, fleetVars,
                   now, storeVars,
                   dbVars, controlVars, serialVars, ghostVars>>

\* a or b, for numbers and None
PyOr(a, b) == IF a # None /\ a # 0 THEN a ELSE b

\* the telemetry lines the model injects
TelemetryLines ==
    {[raining |-> 75, water |-> None, earthquake |-> <<>>, gyro |-> <<>>],
     [raining |-> 0, water |-> None, earthquake |-> <<20, 15>>, gyro |-> <<>>]}

\* SensorWorker._process_line for a telemetry line
ProcessLineSteps(line) ==
    <<OpUpdateSensor(PyOr(line.raining, line.water),
                     IF line.earthquake # <<>> THEN line.earthquake ELSE line.gyro)>>

\* the telemetry lines of the reading model: precipitation under raining or
\* under water, below the thresholds of the Control Engine
ReadingLines ==
    {[raining |-> r, water |-> None, earthquake |-> <<>>, gyro |-> <<>>] : r \in {0, 10, 39}}
    \cup {[raining |-> None, water |-> w, earthquake |-> <<>>, gyro |-> <<>>] : w \in {0, 25}}

\* the lines read in the reading model
MaxReadings == 3

OpProcessLine(line) == [op |-> "process_line", line |-> line]

\* _read_loop: a telemetry line was read from the port
ReadTelemetry(t) ==
    /\ t = "sensor"
    /\ Idle(t)
    /\ nOps < MaxReadings
    /\ nOps' = nOps + 1
    /\ \E line \in ReadingLines : todo' = [todo EXCEPT ![t] = <<OpProcessLine(line)>>]
    /\ UNCHANGED <<connVars, pairingVars, lifeVars, subscriberVars, dashVars, registryVars,
                   fleetVars, now, storeVars, dbVars, controlVars, serialVars, ghostVars>>

\* _process_line for a telemetry line, up to its call of state.update_sensor
ProcessLine(t) ==
    /\ HeadOp(t, "process_line")
    /\ Continue(t, ProcessLineSteps(Head(todo[t]).line))
    /\ UNCHANGED <<connVars, pairingVars, lifeVars, subscriberVars, dashVars, registryVars,
                   fleetVars, now, nOps, storeVars, dbVars, controlVars, serialVars,
                   ghostVars>>

Telemetry(t) ==
    /\ t = "sensor"
    /\ \E line \in TelemetryLines : Start(t, ProcessLineSteps(line))
    /\ UNCHANGED <<connVars, pairingVars, lifeVars, subscriberVars, dashVars, registryVars, fleetVars,
                   now, storeVars,
                   dbVars, controlVars, serialVars, ghostVars>>

\* the detections of the decision model: every class of the detector and one
\* it does not know, just below, at and well above min_confidence
DecisionInputs == (HazardClasses \cup {"Person"}) \X {49, 50, 91}

\* a thread calls state.add_detection with any of them
DetectAny(t) ==
    /\ t = "detector"
    /\ \E d \in DecisionInputs : Start(t, <<OpAddDetection(d[1], d[2], 1)>>)
    /\ UNCHANGED <<connVars, pairingVars, lifeVars, subscriberVars, dashVars, registryVars,
                   fleetVars, now, storeVars, dbVars, controlVars, serialVars, ghostVars>>

\* POST /api/alert (server.py set_alert), reason left at its default
ApiSetAlertSteps(a, reason) == <<OpSetAlert(a, reason), OpLed(a)>>

\* the levels the model posts
ApiAlertInputs == {SAFE, CALLING, DANGER}

ApiSetAlert(t) ==
    /\ t = "api"
    /\ \E a \in ApiAlertInputs : Start(t, ApiSetAlertSteps(a, "Manual"))
    /\ UNCHANGED <<connVars, pairingVars, lifeVars, subscriberVars, dashVars, registryVars, fleetVars,
                   now, storeVars,
                   dbVars, controlVars, serialVars, ghostVars>>

\* the manual actions the model posts
ManualActionTypes == {"call_fire", "set_safe"}

\* POST /api/manual/trigger
ApiManualTrigger(t) ==
    /\ t = "api"
    /\ \E type \in ManualActionTypes : Start(t, <<OpManual(type, "")>>)
    /\ UNCHANGED <<connVars, pairingVars, lifeVars, subscriberVars, dashVars, registryVars, fleetVars,
                   now, storeVars,
                   dbVars, controlVars, serialVars, ghostVars>>

\* the action types _handle_manual_trigger has a branch for
HandledActionTypes == {"call_fire", "call_police", "earthquake_alert", "sms_broadcast", "set_safe"}

\* the posts of the dispatch model
MaxDispatchOps == 2

\* POST /api/manual/trigger with any action type the Control Engine handles
ApiManualAny(t) ==
    /\ t = "api"
    /\ Idle(t)
    /\ nOps < MaxDispatchOps
    /\ nOps' = nOps + 1
    /\ \E type \in HandledActionTypes :
        todo' = [todo EXCEPT ![t] = <<OpManual(type, "TEST BROADCAST")>>]
    /\ UNCHANGED <<connVars, pairingVars, lifeVars, subscriberVars, dashVars, registryVars,
                   fleetVars, now, storeVars, dbVars, controlVars, serialVars, ghostVars>>

\* the manual actions of a burst
MaxManualBurst == 11

\* POST /api/manual/trigger again and again, with an action type the
\* Control Engine has no branch for and the post's number as details
ManualBurst(t) ==
    /\ t = "api"
    /\ Idle(t)
    /\ nOps < MaxManualBurst
    /\ nOps' = nOps + 1
    /\ todo' = [todo EXCEPT ![t] = <<OpManual("led_danger", ToString(nOps + 1))>>]
    /\ UNCHANGED <<connVars, pairingVars, lifeVars, subscriberVars, dashVars, registryVars, fleetVars,
                   now, storeVars,
                   dbVars, controlVars, serialVars, ghostVars>>

\* the detections of a burst
MaxBurst == 1002

\* the i-th detection of a burst: below min_confidence, so the Control
\* Engine's callback returns at once
BurstDetection(i) == [class |-> "Smoke", confidence |-> 45, frame_id |-> i]

\* a thread calls state.add_detection again and again; nothing takes events
\* from event_queue meanwhile (the broadcaster runs on the event loop and
\* waits while a handler occupies it)
DetectBurst(t) ==
    /\ t = "detector"
    /\ Idle(t)
    /\ nOps < MaxBurst
    /\ nOps' = nOps + 1
    /\ LET d == BurstDetection(nOps + 1) IN
        todo' = [todo EXCEPT ![t] = <<OpAddDetection(d.class, d.confidence, d.frame_id)>>]
    /\ UNCHANGED <<connVars, pairingVars, lifeVars, subscriberVars, dashVars, registryVars, fleetVars,
                   now, storeVars,
                   dbVars, controlVars, serialVars, ghostVars>>

\* the quiet periods of the stale-alert model
MaxQuiet == 2

\* stale_alert_seconds and one more pass with nothing arriving
Quiet ==
    /\ now < Epoch + MaxQuiet * (stale_alert_seconds + 1)
    /\ now' = now + stale_alert_seconds + 1
    /\ UNCHANGED <<connVars, pairingVars, lifeVars, subscriberVars, dashVars, registryVars, fleetVars,
                   nOps, storeVars,
                   dbVars, controlVars, serialVars, todo, ghostVars>>

\* POST /api/evacuate (server.py trigger_evacuation), exit zone 3
ApiEvacuate(t) ==
    /\ t = "api"
    /\ Start(t, SetEvacuateModeSteps(3))
    /\ UNCHANGED <<connVars, pairingVars, lifeVars, subscriberVars, dashVars, registryVars, fleetVars,
                   now, storeVars,
                   dbVars, controlVars, serialVars, ghostVars>>

\* a second passes
Tick ==
    /\ now < Epoch + MaxTime
    /\ now' = now + 1
    /\ UNCHANGED <<connVars, pairingVars, lifeVars, subscriberVars, dashVars, registryVars, fleetVars,
                   nOps, storeVars,
                   dbVars, controlVars, serialVars, todo, ghostVars>>

\* ------------------------------------------------------------------------
\* Dashboards: the status endpoint, the WebSocket clients and the event
\* broadcaster (server.py).  All three run on the asyncio event loop, the
\* thread "api": a handler runs to its end before the broadcaster runs again.
\* ------------------------------------------------------------------------
\* the dashboard clients that may connect
MaxClients == 1
Clients == 1..MaxClients

OpGetFullState(acc, dest) == [op |-> "get_full_state", acc |-> acc, dest |-> dest]
OpSendInit(c, data) == [op |-> "send_init", client |-> c, data |-> data]
OpReplyStatus(data) == [op |-> "reply_status", data |-> data]

NoReply == [set |-> FALSE, data |-> <<>>]

\* get_full_state: its k-th getter call (get_sensor, get_alert, get_devices,
\* get_detections(10)), each under its own lock
PartRead(k) ==
    CASE k = 1 -> StoreContents.sensor
      [] k = 2 -> StoreContents.alert
      [] k = 3 -> StoreContents.devices
      [] k = 4 -> StoreContents.detections

\* the dict get_full_state returns
FullState(acc) ==
    [sensor |-> acc[1], alert |-> acc[2], devices |-> acc[3], detections |-> acc[4]]

\* GET /api/status
GetStatus(t) ==
    /\ t = "api"
    /\ Start(t, <<OpGetFullState(<<>>, [to |-> "status", client |-> 0])>>)
    /\ storeLog' = {StoreContents}
    /\ reply' = NoReply
    /\ UNCHANGED <<connVars, pairingVars, lifeVars, subscriberVars, connections, received, issued,
                   registryVars, fleetVars,
                   now, storeVars, dbVars, controlVars, serialVars, ghostVars>>

\* /ws/telemetry: manager.connect adds the client, then the init message is
\* built by get_full_state
WsConnect(t) ==
    /\ t = "api"
    /\ \E c \in Clients \ connections :
        /\ Start(t, <<OpGetFullState(<<>>, [to |-> "init", client |-> c])>>)
        /\ connections' = connections \cup {c}
    /\ storeLog' = {StoreContents}
    /\ reply' = NoReply
    /\ UNCHANGED <<connVars, pairingVars, lifeVars, subscriberVars, received, issued, registryVars,
                   fleetVars, now,
                   storeVars, dbVars, controlVars, serialVars, ghostVars>>

\* get_full_state: one getter call; after the last the dict goes to the caller
GetFullStateRead(t) ==
    /\ HeadOp(t, "get_full_state")
    /\ LET m == Head(todo[t])
           acc == Append(m.acc, PartRead(Len(m.acc) + 1))
       IN
        Continue(t, IF Len(acc) < 4 THEN <<[m EXCEPT !.acc = acc]>>
                    ELSE IF m.dest.to = "init"
                    THEN <<OpSendInit(m.dest.client, FullState(acc))>>
                    ELSE <<OpReplyStatus(FullState(acc))>>)
    /\ UNCHANGED <<connVars, pairingVars, lifeVars, subscriberVars, dashVars, registryVars, fleetVars,
                   now, nOps, storeVars,
                   dbVars, controlVars, serialVars, ghostVars>>

\* websocket.send_json({"type": "init", "data": ...})
SendInit(t) ==
    /\ HeadOp(t, "send_init")
    /\ LET m == Head(todo[t]) IN
        received' = [received EXCEPT ![m.client] = Append(@, Event("init", m.data))]
    /\ Continue(t, <<>>)
    /\ UNCHANGED <<connVars, pairingVars, lifeVars, subscriberVars, connections, issued, storeLog,
                   reply, registryVars,
                   fleetVars, now, nOps, storeVars, dbVars, controlVars, serialVars,
                   ghostVars>>

\* get_status returns the dict
ReplyStatus(t) ==
    /\ HeadOp(t, "reply_status")
    /\ reply' = [set |-> TRUE, data |-> Head(todo[t]).data]
    /\ Continue(t, <<>>)
    /\ UNCHANGED <<connVars, pairingVars, lifeVars, subscriberVars, connections, received, issued,
                   storeLog, registryVars,
                   fleetVars, now, nOps, storeVars, dbVars, controlVars, serialVars,
                   ghostVars>>

\* broadcast_state_events: one event is taken from event_queue and sent to
\* every connected client (with no client connected it is dropped)
BroadcastStateEvents(t) ==
    /\ t = "api"
    /\ Idle(t)
    /\ event_queue # <<>>
    /\ event_queue' = Tail(event_queue)
    /\ received' = [c \in Clients |-> IF c \in connections
                                      THEN Append(received[c], Head(event_queue))
                                      ELSE received[c]]
    /\ UNCHANGED <<connVars, pairingVars, lifeVars, subscriberVars, connections, issued, storeLog,
                   reply, registryVars,
                   fleetVars, now, nOps, current_alert, alert_history, subscriber_lock,
                   subscribed, delivered, detections, sensor_data, manual_triggers, dbVars,
                   controlVars, serialVars, todo, ghostVars>>

\* ------------------------------------------------------------------------
\* Vision worker and worker fleet (vision_worker.py, worker_manager.py)
\* ------------------------------------------------------------------------
coordVars == <<now, nOps, storeVars, dbVars, controlVars, serialVars, ghostVars>>

OpCounterStore(f, v) == [op |-> "counter_store", frame_id |-> f, value |-> v]
OpDecide(f) == [op |-> "decide", frame_id |-> f]
\* required_specialty = None
NoSpecialty == "None"
OpDispatch(f) == [op |-> "dispatch", frame_id |-> f, specialty |-> NoSpecialty]
OpTarget(f, eligible, v) == [op |-> "target", frame_id |-> f, eligible |-> eligible, value |-> v]
OpWait(f) == [op |-> "wait", frame_id |-> f]
OpRetrieve(f, flag) == [op |-> "retrieve", frame_id |-> f, flag |-> flag]
OpLocal(f) == [op |-> "local", frame_id |-> f]

\* the result slot of a pending task: None, or the detections of an
\* inference_result (sentTo: the dispatch whose task the worker answered)
NoResult == [set |-> FALSE, detections |-> <<>>, sentTo |-> "none"]
ResultOf(msg) == [set |-> TRUE, detections |-> msg.detections, sentTo |-> msg.sentTo]

\* what inference finds in every frame of the model: one detection, below
\* the confidence the Control Engine acts on
InferenceOutput == <<[class |-> "Smoke", confidence |-> 45]>>

\* the record frameLog keeps of a frame: the value its own increment gave
\* frame_counter, the offload decision, what processed it, and what
\* distribute_task_sync returned for it
NewFrame == [counter |-> 0, decided |-> FALSE, offload |-> FALSE, outcome |-> {},
             returned |-> NoResult]

\* a del that would leave the entry in place
KeepEntry(tasks, f) == tasks

\* pending_tasks[f] = entry, and del pending_tasks[f]
Assign(tasks, f, entry) ==
    [x \in DOMAIN tasks \cup {f} |-> IF x = f THEN entry ELSE tasks[x]]
Delete(tasks, f) == [x \in DOMAIN tasks \ {f} |-> tasks[x]]

\* an exception no handler catches ends the thread
Crash(t) ==
    /\ todo' = [todo EXCEPT ![t] = <<>>]
    /\ crashed' = crashed \cup {t}

\* the frames camera c reads
FrameBudget(c) == IF c = "cam1" THEN MaxFrames ELSE 1

\* _camera_loop: a frame was read; frame_count += 1 and _process_frame is
\* called with frame_count as its frame_id; there self.frame_counter += 1
\* begins with the read of the attribute
CameraLoop(t) ==
    /\ t \in Cameras \ crashed
    /\ Idle(t)
    /\ frame_count[t] < FrameBudget(t)
    /\ frame_count' = [frame_count EXCEPT ![t] = @ + 1]
    /\ frameLog' = [frameLog EXCEPT ![t] = Append(@, NewFrame)]
    /\ todo' = [todo EXCEPT ![t] = <<OpCounterStore(frame_count[t] + 1, frame_counter + 1)>>]
    /\ UNCHANGED <<connVars, pairingVars, lifeVars, subscriberVars, dashVars, registryVars, coordVars,
                   frame_counter,
                   workers, pending_tasks, event_set, current_worker_index, task_inbox,
                   result_inbox, crashed>>

\* _process_frame: self.frame_counter += 1, the write of the attribute
FrameCounterStore(t) ==
    /\ HeadOp(t, "counter_store")
    /\ LET m == Head(todo[t]) IN
        /\ frame_counter' = m.value
        /\ frameLog' = [frameLog EXCEPT ![t][m.frame_id].counter = m.value]
        /\ Continue(t, <<OpDecide(m.frame_id)>>)
    /\ UNCHANGED <<connVars, pairingVars, lifeVars, subscriberVars, dashVars, registryVars, coordVars,
                   frame_count, workers,
                   pending_tasks, event_set, current_worker_index, task_inbox,
                   result_inbox, crashed>>

\* should_offload
ShouldOffload(C, W) == W > 0 /\ C % (W + 1) # 0

\* _process_frame: worker_count = len(worker_manager.workers) and the
\* offload decision on the value frame_counter has now
ProcessFrameDecide(t) ==
    /\ HeadOp(t, "decide")
    /\ LET f == Head(todo[t]).frame_id
           off == ShouldOffload(frame_counter, Len(workers))
       IN
        /\ frameLog' = [frameLog EXCEPT ![t][f].decided = TRUE, ![t][f].offload = off]
        /\ Continue(t, IF off THEN <<OpDispatch(f)>> ELSE <<OpLocal(f)>>)
    /\ UNCHANGED <<connVars, pairingVars, lifeVars, subscriberVars, dashVars, registryVars, coordVars,
                   frame_counter,
                   frame_count, workers, pending_tasks, event_set, current_worker_index,
                   task_inbox, result_inbox, crashed>>

Registered(w) == \E i \in DOMAIN workers : workers[i] = w

\* the specialty a worker registers with (a register message without one
\* gives Generalist)
SpecialtyOf(w) == IF w = 1 THEN "Generalist" ELSE "Fire"

\* eligible_workers: the ids of self.workers, in the order of the dict, whose
\* specialty is the required one or Generalist; all of them when none is
\* required
EligibleWorkers(ws, required) ==
    SelectSeq(ws, LAMBDA w : \/ required = NoSpecialty
                             \/ SpecialtyOf(w) = required
                             \/ SpecialtyOf(w) = "Generalist")

\* distribute_task_sync up to its read of current_worker_index: no worker
\* and no eligible worker return None; otherwise the eligible list is built
\* and self.current_worker_index + 1 is computed.  The call of len() that
\* follows in the same statement is a point where the interpreter may switch
\* threads, so the store of the cursor is a step of its own
DistributeSelect(t) ==
    /\ HeadOp(t, "dispatch")
    /\ LET m == Head(todo[t])
           eligible == EligibleWorkers(workers, m.specialty)
       IN
        IF workers = <<>> \/ eligible = <<>>
        THEN Continue(t, <<OpLocal(m.frame_id)>>)
        ELSE Continue(t, <<OpTarget(m.frame_id, eligible, current_worker_index + 1)>>)
    /\ UNCHANGED <<connVars, pairingVars, lifeVars, subscriberVars, dashVars, registryVars, coordVars,
                   fleetVars>>

\* distribute_task_sync from the store of current_worker_index up to its
\* wait: the round-robin choice, self.workers[target_wid] (KeyError for a
\* worker removed meanwhile), the pending-task entry with a new Event, and
\* the send, which succeeds or raises; the except block deletes the entry
\* again and returns None
DistributeTaskSync(t) ==
    /\ HeadOp(t, "target")
    /\ LET m == Head(todo[t])
           f == m.frame_id
           index == m.value % Len(m.eligible)
           target == m.eligible[index + 1]
       IN
        /\ current_worker_index' = index
        /\ IF ~Registered(target)
           THEN /\ Crash(t)
                /\ UNCHANGED <<pending_tasks, event_set, task_inbox>>
           ELSE /\ event_set' = [event_set EXCEPT ![t] = FALSE]
                /\ UNCHANGED crashed
                /\ \E sent \in BOOLEAN :
                    IF sent
                    THEN /\ pending_tasks' = Assign(pending_tasks, f,
                                                    [event |-> t, result |-> NoResult])
                         /\ task_inbox' = [task_inbox EXCEPT ![target] =
                                             Append(@, [frame_id |-> f, sentBy |-> t])]
                         /\ Continue(t, <<OpWait(f)>>)
                    ELSE /\ pending_tasks' =
                                Delete(Assign(pending_tasks, f,
                                              [event |-> t, result |-> NoResult]), f)
                         /\ UNCHANGED task_inbox
                         /\ Continue(t, <<OpLocal(f)>>)
    /\ UNCHANGED <<connVars, pairingVars, lifeVars, subscriberVars, dashVars, registryVars, coordVars,
                   frame_counter,
                   frame_count, workers, result_inbox, frameLog>>

\* distribute_task_sync: flag = event.wait(timeout) returns, with the event
\* set or by timeout
DistributeWait(t) ==
    /\ HeadOp(t, "wait")
    /\ Continue(t, <<OpRetrieve(Head(todo[t]).frame_id, event_set[t])>>)
    /\ UNCHANGED <<connVars, pairingVars, lifeVars, subscriberVars, dashVars, registryVars, coordVars,
                   fleetVars>>

\* distribute_task_sync after the wait: the result is read from the entry
\* pending_tasks holds for frame_id (KeyError without one), the entry is
\* deleted, and _process_frame uses a result that is not None
DistributeRetrieve(t) ==
    /\ HeadOp(t, "retrieve")
    /\ LET m == Head(todo[t])
           f == m.frame_id
           result == IF m.flag THEN pending_tasks[f].result ELSE NoResult
       IN
        IF m.flag /\ f \notin DOMAIN pending_tasks
        THEN /\ Crash(t)
             /\ UNCHANGED <<pending_tasks, frameLog>>
        ELSE /\ pending_tasks' = Delete(pending_tasks, f)
             /\ UNCHANGED crashed
             /\ IF result.set
                THEN /\ frameLog' = [frameLog EXCEPT ![t][f].returned = result,
                                                     ![t][f].outcome = @ \cup {"remote"}]
                     /\ Continue(t, <<>>)
                ELSE /\ Continue(t, <<OpLocal(f)>>)
                     /\ UNCHANGED frameLog
    /\ UNCHANGED <<connVars, pairingVars, lifeVars, subscriberVars, dashVars, registryVars, coordVars,
                   frame_counter,
                   frame_count, workers, event_set, current_worker_index, task_inbox,
                   result_inbox>>

\* state.add_detection for every detection of a list
RECURSIVE AddDetectionSteps(_, _)
AddDetectionSteps(dets, f) ==
    IF dets = <<>> THEN <<>>
    ELSE <<OpAddDetection(Head(dets).class, Head(dets).confidence, f)>>
         \o AddDetectionSteps(Tail(dets), f)

\* _process_frame: the local fallback, self.model(frame) and add_detection
\* for every box
LocalInference(t) ==
    /\ HeadOp(t, "local")
    /\ LET f == Head(todo[t]).frame_id IN
        /\ frameLog' = [frameLog EXCEPT ![t][f].outcome = @ \cup {"local"}]
        /\ Continue(t, AddDetectionSteps(InferenceOutput, f))
    /\ UNCHANGED <<connVars, pairingVars, lifeVars, subscriberVars, dashVars, registryVars, coordVars,
                   frame_counter,
                   frame_count, workers, pending_tasks, event_set, current_worker_index,
                   task_inbox, result_inbox, crashed>>

\* _handle_worker: an inference_result message is read; a pending task of
\* its frame_id gets the result and its event is set; every detection is
\* added to the State Store
HandleWorkerResult(t) ==
    /\ \E w \in WorkerIds :
        /\ t = HandlerOf(w)
        /\ Idle(t)
        /\ result_inbox[w] # <<>>
        /\ LET msg == Head(result_inbox[w]) IN
            /\ result_inbox' = [result_inbox EXCEPT ![w] = Tail(@)]
            /\ IF msg.frame_id \in DOMAIN pending_tasks
               THEN /\ pending_tasks' = [pending_tasks EXCEPT ![msg.frame_id].result =
                                           ResultOf(msg)]
                    /\ event_set' = [event_set EXCEPT
                                       ![pending_tasks[msg.frame_id].event] = TRUE]
               ELSE UNCHANGED <<pending_tasks, event_set>>
            /\ todo' = [todo EXCEPT ![t] = AddDetectionSteps(msg.detections, msg.frame_id)]
    /\ UNCHANGED <<connVars, pairingVars, lifeVars, subscriberVars, dashVars, registryVars, coordVars,
                   frame_counter,
                   frame_count, workers, current_worker_index, task_inbox, crashed,
                   frameLog>>

\* a worker answers the oldest task it holds with an inference_result of the
\* task's frame_id (a worker that never answers never takes this step)
WorkerReply(w) ==
    /\ task_inbox[w] # <<>>
    /\ LET task == Head(task_inbox[w]) IN
        /\ task_inbox' = [task_inbox EXCEPT ![w] = Tail(@)]
        /\ result_inbox' = [result_inbox EXCEPT ![w] =
                              Append(@, [frame_id |-> task.frame_id,
                                         detections |-> InferenceOutput,
                                         sentTo |-> task.sentBy])]
    /\ UNCHANGED <<connVars, pairingVars, lifeVars, subscriberVars, dashVars, registryVars, coordVars,
                   todo, frame_counter,
                   frame_count, workers, pending_tasks, event_set, current_worker_index,
                   crashed, frameLog>>

\* the inference_result messages of the result model and the frames they
\* are for
MaxResults == 3
ResultFrames == {1, 2}

\* a worker sends an inference_result for a frame, for the first time or
\* once more (the same frame_id and the same detections)
WorkerSendsResult(w) ==
    /\ nOps < MaxResults
    /\ nOps' = nOps + 1
    /\ \E f \in ResultFrames :
        result_inbox' = [result_inbox EXCEPT ![w] =
                           Append(@, [frame_id |-> f, detections |-> InferenceOutput,
                                      sentTo |-> "none"])]
    /\ UNCHANGED <<connVars, pairingVars, lifeVars, subscriberVars, dashVars, registryVars, now,
                   storeVars, dbVars, controlVars, serialVars, ghostVars,
                   todo, frame_counter, frame_count, workers, pending_tasks, event_set,
                   current_worker_index, task_inbox, crashed, frameLog>>

\* ------------------------------------------------------------------------
\* Worker sessions and the heartbeat cleanup (worker_manager.py, server.py)
\* ------------------------------------------------------------------------
HEARTBEAT_TIMEOUT == 15
cleanup_period == 5

\* the seconds the clock of the session model runs
MaxSessionTime == 20

\* the device id a worker is recorded under: its worker_id
DeviceOf(w) == "worker" \o ToString(w)

OpSession(type, w) == [op |-> "session", type |-> type, worker_id |-> w]
OpUpdateDevice(d, connected) == [op |-> "update_device", device_id |-> d, connected |-> connected]
OpDelWorker(w) == [op |-> "del_worker", worker_id |-> w]
OpCleanupTop == [op |-> "cleanup_top"]
OpCleanupScan(t0, size) == [op |-> "cleanup_scan", now |-> t0, size |-> size]
OpSleep == [op |-> "sleep"]
OpSleepWait(until) == [op |-> "sleep_wait", until |-> until]

\* self.workers[w] = {...}: a new key goes last, a present key keeps its place
PutWorker(ws, w) == IF \E i \in DOMAIN ws : ws[i] = w THEN ws ELSE Append(ws, w)

\* del self.workers[w]
RemoveWorker(ws, w) == SelectSeq(ws, LAMBDA x : x # w)

\* the messages a worker session brings: register, heartbeat, and the end of
\* the connection ("close"), which takes _handle_worker to its finally block
SessionMessages == {"register", "heartbeat", "close"}

\* the messages a worker can send that _handle_worker raises on: a body
\* json.loads rejects, and an inference_result whose second detection has no
\* 'confidence' key (worker_manager.py:111, 157)
MalformedMessages == {"malformed", "bad_result"}

\* the detection of a bad_result message that precedes the incomplete one
GoodDetection == [class |-> "Smoke", confidence |-> 45, frame_id |-> 0]

\* the accepts and messages of the connection model
MaxSessionOps == 5

\* no connection of the worker is open.  open: its handler is in the receive
\* loop; dropped: the handler read a malformed message on the connection and
\* the peer has not closed it since; registered: the worker was in
\* self.workers when that message was read
NoSession == [open |-> FALSE, dropped |-> FALSE, registered |-> FALSE]

\* _listen_loop: sock.accept() returns a connection of worker w and the
\* handler thread starts, reaching its first conn.recv.  After stop() the
\* handler finds running False and closes the connection at once, and the
\* listen loop, back at its `while self.running`, closes the socket
Accept(t) ==
    /\ listener = "listening"
    /\ Idle(t)
    /\ nOps < MaxSessionOps
    /\ nOps' = nOps + 1
    /\ \E w \in WorkerIds :
        /\ t = HandlerOf(w)
        /\ ~session[w].open
        /\ IF running["fleet"]
           THEN /\ session' = [session EXCEPT ![w] = [NoSession EXCEPT !.open = TRUE]]
                /\ UNCHANGED listener
           ELSE /\ listener' = "closed"
                /\ UNCHANGED session
    /\ UNCHANGED <<connVars, pairingVars, running, stopped, port_available,
                   subscriberVars, dashVars, registryVars, fleetVars, now, storeVars,
                   dbVars, controlVars, serialVars, todo, ghostVars>>

\* conn.recv returns a whole message on an open connection
WorkerSends(t) ==
    /\ Idle(t)
    /\ nOps < MaxSessionOps
    /\ nOps' = nOps + 1
    /\ \E w \in WorkerIds, type \in SessionMessages \cup MalformedMessages :
        /\ t = HandlerOf(w)
        /\ session[w].open
        /\ todo' = [todo EXCEPT ![t] = <<OpSession(type, w)>>]
    /\ UNCHANGED <<connVars, pairingVars, lifeVars, subscriberVars, dashVars, registryVars,
                   fleetVars, now, storeVars, dbVars, controlVars, serialVars, ghostVars>>

WorkerMessage(t) ==
    /\ \E w \in WorkerIds, type \in SessionMessages :
        /\ t = HandlerOf(w)
        /\ Start(t, <<OpSession(type, w)>>)
    /\ UNCHANGED <<connVars, pairingVars, lifeVars, subscriberVars, dashVars, registryVars, fleetVars,
                   now, storeVars,
                   dbVars, controlVars, serialVars, ghostVars>>

\* _handle_worker leaves its receive loop after a message when the peer
\* closed the connection, when the message made it raise, or when stop() has
\* cleared running (`while self.running`)
LoopEnds(type) == type \in {"close"} \cup MalformedMessages \/ ~running["fleet"]

\* _handle_worker: a register message writes the entry and reports the
\* device connected; a heartbeat writes last_seen of a worker still in the
\* registry; the finally block reports a worker still in the registry
\* disconnected and deletes its entry, and closes the connection.  The
\* exception json.loads raises is caught outside the receive loop, so it
\* leads to the finally block; so does the KeyError of an incomplete
\* detection, after the detections before it were added
HandleWorkerSession(t) ==
    /\ HeadOp(t, "session")
    /\ LET m == Head(todo[t])
           w == m.worker_id
       IN
        /\ workers' = IF m.type = "register" THEN PutWorker(workers, w) ELSE workers
        /\ last_seen' = IF m.type = "register"
                           \/ (m.type = "heartbeat" /\ worker_id[t] = w /\ Registered(w))
                        THEN [last_seen EXCEPT ![w] = now]
                        ELSE last_seen
        /\ worker_conn' = IF m.type = "register" THEN [worker_conn EXCEPT ![w] = t]
                          ELSE worker_conn
        /\ worker_id' = [worker_id EXCEPT ![t] =
                            IF LoopEnds(m.type) THEN None
                            ELSE IF m.type = "register" THEN w
                            ELSE @]
        /\ session' = [session EXCEPT ![w] =
                          IF m.type \in MalformedMessages
                          THEN [open |-> FALSE, dropped |-> TRUE, registered |-> Registered(w)]
                          ELSE IF LoopEnds(m.type) THEN NoSession
                          ELSE @]
        /\ Continue(t, (IF m.type = "register" THEN <<OpUpdateDevice(DeviceOf(w), TRUE)>>
                        ELSE IF m.type = "bad_result"
                        THEN <<OpAddDetection(GoodDetection.class, GoodDetection.confidence,
                                              GoodDetection.frame_id)>>
                        ELSE <<>>)
                       \o (IF LoopEnds(m.type)
                              /\ ((worker_id[t] = w /\ Registered(w)) \/ m.type = "register")
                           THEN <<OpUpdateDevice(DeviceOf(w), FALSE), OpDelWorker(w)>>
                           ELSE <<>>))
    /\ UNCHANGED <<pairingVars, running, listener, stopped, port_available,
                   subscriberVars, dashVars, coordVars, devices, listing, frame_counter,
                   frame_count, pending_tasks, event_set, current_worker_index, task_inbox,
                   result_inbox, crashed, frameLog>>

DeviceEvent(d, connected) ==
    Event("device_update", [device_id |-> d, connected |-> connected])

\* update_device: the record is replaced inside _device_lock, then _emit
UpdateDevice(t) ==
    /\ HeadOp(t, "update_device")
    /\ LET m == Head(todo[t])
           d == m.device_id
       IN
        /\ devices' = [x \in DOMAIN devices \cup {d} |->
                         IF x = d THEN [connected |-> m.connected, last_seen |-> now]
                         ELSE devices[x]]
        /\ Continue(t, EmitSteps(DeviceEvent(d, m.connected)))
    /\ UNCHANGED <<connVars, pairingVars, lifeVars, subscriberVars, connections, received, issued,
                   reply, fleetVars,
                   last_seen, listing, now, nOps, storeVars, dbVars, controlVars,
                   serialVars, ghostVars>>
    /\ storeLog' = Observe(StoreContents')

\* del self.workers[wid]: a KeyError when another thread deleted the entry
\* first; neither _cleanup_loop nor the finally block catches it
DelWorker(t) ==
    /\ HeadOp(t, "del_worker")
    /\ LET w == Head(todo[t]).worker_id IN
        IF Registered(w)
        THEN /\ workers' = RemoveWorker(workers, w)
             /\ last_seen' = [last_seen EXCEPT ![w] = None]
             /\ worker_conn' = [worker_conn EXCEPT ![w] = "none"]
             /\ Continue(t, <<>>)
             /\ UNCHANGED crashed
        ELSE /\ Crash(t)
             /\ UNCHANGED <<workers, last_seen, worker_conn>>
    /\ UNCHANGED <<worker_id, pairingVars, lifeVars, subscriberVars, dashVars, coordVars, devices,
                   listing, frame_counter,
                   frame_count, pending_tasks, event_set, current_worker_index, task_inbox,
                   result_inbox, frameLog>>

\* _cleanup_loop: now = time.time(), and the iteration over self.workers begins
CleanupLoopTop(t) ==
    /\ HeadOp(t, "cleanup_top")
    /\ Continue(t, <<OpCleanupScan(now, Len(workers))>>)
    /\ UNCHANGED <<connVars, pairingVars, lifeVars, subscriberVars, dashVars, registryVars, fleetVars,
                   now, nOps, storeVars,
                   dbVars, controlVars, serialVars, ghostVars>>

\* the workers a cleanup pass that read the clock at t0 removes
TimedOut(ws, seen, t0) == SelectSeq(ws, LAMBDA w : t0 - seen[w] > HEARTBEAT_TIMEOUT)

RECURSIVE RemovalSteps(_)
RemovalSteps(ws) ==
    IF ws = <<>> THEN <<>>
    ELSE <<OpUpdateDevice(DeviceOf(Head(ws)), FALSE), OpDelWorker(Head(ws))>> \o RemovalSteps(Tail(ws))

\* _cleanup_loop: the iteration over self.workers.items() ends.  A registry
\* that changed size since the iteration began raises RuntimeError, which
\* nothing catches; otherwise every timed-out worker is reported
\* disconnected, its connection closed and its entry deleted, then sleep(5)
CleanupScan(t) ==
    /\ HeadOp(t, "cleanup_scan")
    /\ LET m == Head(todo[t]) IN
        IF Len(workers) # m.size
        THEN Crash(t)
        ELSE /\ Continue(t, RemovalSteps(TimedOut(workers, last_seen, m.now)) \o <<OpSleep>>)
             /\ UNCHANGED crashed
    /\ UNCHANGED <<connVars, pairingVars, lifeVars, subscriberVars, dashVars, coordVars, registryVars,
                   frame_counter,
                   frame_count, workers, pending_tasks, event_set, current_worker_index,
                   task_inbox, result_inbox, frameLog>>

\* time.sleep(5) is called
CleanupSleep(t) ==
    /\ HeadOp(t, "sleep")
    /\ Continue(t, <<OpSleepWait(now + cleanup_period)>>)
    /\ UNCHANGED <<connVars, pairingVars, lifeVars, subscriberVars, dashVars, registryVars, fleetVars,
                   now, nOps, storeVars,
                   dbVars, controlVars, serialVars, ghostVars>>

\* time.sleep(5) returns, and the loop begins its next pass
CleanupWake(t) ==
    /\ HeadOp(t, "sleep_wait")
    /\ now >= Head(todo[t]).until
    /\ Continue(t, <<OpCleanupTop>>)
    /\ UNCHANGED <<connVars, pairingVars, lifeVars, subscriberVars, dashVars, registryVars, fleetVars,
                   now, nOps, storeVars,
                   dbVars, controlVars, serialVars, ghostVars>>

\* GET /api/workers: every entry of worker_manager.workers, in order
WorkerList(ws, seen) == [i \in DOMAIN ws |-> [worker_id |-> ws[i], last_seen |-> seen[ws[i]]]]

GetWorkers(t) ==
    /\ t = "api"
    /\ Start(t, <<>>)
    /\ listing' = [at |-> now, workers |-> WorkerList(workers, last_seen)]
    /\ UNCHANGED <<connVars, pairingVars, lifeVars, subscriberVars, dashVars, fleetVars, last_seen,
                   devices, now, storeVars,
                   dbVars, controlVars, serialVars, ghostVars>>

\* a second passes.  The cleanup thread is never late: the clock moves only
\* while it sleeps (or after it ended), so every pass runs at the instant
\* its sleep ends
SessionTick ==
    /\ now < Epoch + MaxSessionTime
    /\ \/ HeadOp("cleanup", "sleep_wait") /\ now < Head(todo["cleanup"]).until
       \/ Idle("cleanup")
    /\ now' = now + 1
    /\ UNCHANGED <<connVars, pairingVars, lifeVars, subscriberVars, dashVars, registryVars, fleetVars,
                   nOps, storeVars,
                   dbVars, controlVars, serialVars, todo, ghostVars>>

\* ------------------------------------------------------------------------
\* The coordinator: State Store, Control Engine, API
\* ------------------------------------------------------------------------
CallContacts ==
    <<[number |-> "+1", name |-> "ops", message |-> "", category |-> "general"],
      [number |-> "+2", name |-> "fire dept", message |-> "", category |-> "fire"],
      [number |-> "+3", name |-> "flood desk", message |-> "", category |-> "rain"]>>
SmsContacts ==
    <<[number |-> "+4", name |-> "ops", message |-> "", category |-> "general"],
      [number |-> "+5", name |-> "fire dept", message |-> "FIRE", category |-> "fire"]>>


\* the fleet and the vision worker after construction, with the workers ws
\* registered
InitFleet(ws) ==
    /\ frame_counter = 0
    /\ frame_count = [c \in Cameras |-> 0]
    /\ workers = ws
    /\ pending_tasks = <<>>
    /\ event_set = [c \in Cameras |-> FALSE]
    /\ current_worker_index = 0
    /\ task_inbox = [w \in PoolWorkers |-> <<>>]
    /\ result_inbox = [w \in PoolWorkers |-> <<>>]
    /\ crashed = {}
    /\ frameLog = [c \in Cameras |-> <<>>]
    /\ last_seen = [w \in WorkerIds |->
                      IF \E i \in DOMAIN ws : ws[i] = w THEN Epoch ELSE None]
    /\ worker_conn = [w \in WorkerIds |->
                        IF \E i \in DOMAIN ws : ws[i] = w THEN HandlerOf(w) ELSE "none"]
    /\ worker_id = [t \in Handlers \cup Rehandlers |->
                      IF \E i \in DOMAIN ws : t = HandlerOf(ws[i])
                      THEN CHOOSE w \in WorkerIds : t = HandlerOf(w)
                      ELSE None]
    /\ devices = [d \in {DeviceOf(ws[i]) : i \in DOMAIN ws} |->
                    [connected |-> TRUE, last_seen |-> Epoch]]
    /\ listing = [at |-> Epoch, workers |-> <<>>]

\* ------------------------------------------------------------------------
\* Serial Sensor Link: start, connect and the read loop (sensor_worker.py)
\* ------------------------------------------------------------------------
\* SensorWorker.device_id
esp32_main == "esp32_main"

\* the port changes and the lines read in the model of the serial link
MaxSerialOps == 4

OpConnect(from) == [op |-> "connect", from |-> from]
OpSpawnReadLoop == [op |-> "spawn_read_loop"]
OpReadLoop == [op |-> "read_loop"]

\* the telemetry lines the model of the serial link reads: below every
\* threshold of the Control Engine
QuietLines == {[raining |-> 10, water |-> None, earthquake |-> <<>>, gyro |-> <<>>]}

\* what follows connect(): start() returns False when it failed and starts
\* the read thread when it succeeded; _read_loop sleeps 5 s and goes on to
\* its next pass when it failed and reads when it succeeded
AfterConnect(from, ok) ==
    IF from = "start"
    THEN (IF ok THEN <<OpSpawnReadLoop>> ELSE <<>>)
    ELSE <<OpReadLoop>>

\* connect(): serial.Serial(...) opens the port or raises SerialException;
\* the device is reported connected or disconnected accordingly.  A failed
\* attempt of _read_loop counts as an operation of the model: once
\* MaxSerialOps is reached its next attempt is made when the port is present
Connect(t) ==
    /\ HeadOp(t, "connect")
    /\ LET retry == ~port_available /\ Head(todo[t]).from = "loop" IN
        /\ retry => nOps < MaxSerialOps
        /\ nOps' = IF retry THEN nOps + 1 ELSE nOps
    /\ serial_open' = port_available
    /\ Continue(t, <<OpUpdateDevice(esp32_main, port_available)>>
                   \o AfterConnect(Head(todo[t]).from, port_available))
    /\ UNCHANGED <<connVars, pairingVars, lifeVars, subscriberVars, dashVars, registryVars,
                   fleetVars, now, storeVars, dbVars, controlVars, serial_out,
                   ghostVars>>

\* start() after a connect() that succeeded: running = True and the read
\* thread starts
SpawnReadLoop(t) ==
    /\ HeadOp(t, "spawn_read_loop")
    /\ todo["sensor"] = <<>>
    /\ running' = [running EXCEPT !["sensor"] = TRUE]
    /\ todo' = [todo EXCEPT ![t] = Rest(t), !["sensor"] = <<OpReadLoop>>]
    /\ UNCHANGED <<connVars, pairingVars, session, listener, stopped, port_available,
                   subscriberVars, dashVars, registryVars, fleetVars, now, nOps,
                   storeVars, dbVars, controlVars, serialVars, ghostVars>>

\* one pass of _read_loop: with the port not open, connect(); with the port
\* open and gone, the SerialException of the read leads to disconnect(),
\* which closes the port and reports the device disconnected, and a sleep of
\* 2 s; with the port open and present, the lines waiting are processed
\* (the ping every 5 s is left out)
ReadLoop(t) ==
    /\ HeadOp(t, "read_loop")
    /\ IF ~running["sensor"]
       THEN /\ Continue(t, <<>>)
            /\ UNCHANGED <<serial_open, nOps>>
       ELSE IF ~serial_open
       THEN /\ Continue(t, <<OpConnect("loop")>>)
            /\ UNCHANGED <<serial_open, nOps>>
       ELSE IF ~port_available
       THEN /\ serial_open' = FALSE
            /\ Continue(t, <<OpUpdateDevice(esp32_main, FALSE), OpReadLoop>>)
            /\ UNCHANGED nOps
       ELSE /\ nOps < MaxSerialOps
            /\ nOps' = nOps + 1
            /\ \E line \in QuietLines : Continue(t, ProcessLineSteps(line) \o <<OpReadLoop>>)
            /\ UNCHANGED serial_open
    /\ UNCHANGED <<connVars, pairingVars, lifeVars, subscriberVars, dashVars, registryVars,
                   fleetVars, now, storeVars, dbVars, controlVars, serial_out, ghostVars>>

\* the serial device is plugged in or unplugged
PortChange ==
    /\ nOps < MaxSerialOps
    /\ nOps' = nOps + 1
    /\ port_available' = ~port_available
    /\ UNCHANGED <<connVars, pairingVars, session, running, listener, stopped, subscriberVars,
                   dashVars, registryVars, fleetVars, now, storeVars, dbVars,
                   controlVars, serialVars, todo, ghostVars>>

\* ------------------------------------------------------------------------
\* GSM contacts (state_manager.py, database.py, server.py)
\* ------------------------------------------------------------------------
ContactModes == {"sms", "call"}

OpDbContact(kind, mode, c) == [op |-> "db_contact", kind |-> kind, mode |-> mode, contact |-> c]
OpAddContact(mode, c) == [op |-> "add_contact", mode |-> mode, contact |-> c]
OpDeleteContact(number, before) == [op |-> "delete_contact", number |-> number, before |-> before]

\* add_gsm_contact: the list of the mode gets the contact appended; any other
\* mode returns before anything is written
AddContact(contacts, mode, c) ==
    IF mode \notin ContactModes THEN contacts
    ELSE [contacts EXCEPT ![mode] = Append(@, c)]

\* delete_gsm_contact: both lists lose every contact of the number
RemoveNumber(contacts, number) ==
    [mode \in ContactModes |-> SelectSeq(contacts[mode], LAMBDA c : c.number # number)]

\* get_gsm_contacts
GetGsmContacts == gsm_contacts

\* INSERT INTO gsm_contacts: the row is stored under whatever mode it has
InsertRow(table, mode, c) ==
    [x \in DOMAIN table \cup {mode} |->
        IF x = mode THEN Append(IF x \in DOMAIN table THEN table[x] ELSE <<>>, c)
        ELSE table[x]]

\* DELETE FROM gsm_contacts WHERE number = ?
DeleteRows(table, number) ==
    [x \in DOMAIN table |-> SelectSeq(table[x], LAMBDA c : c.number # number)]

\* add_gsm_number: INSERT INTO gsm_contacts; delete_gsm_number: DELETE FROM
\* gsm_contacts WHERE number = ?
DbGsmNumber(t) ==
    /\ HeadOp(t, "db_contact")
    /\ LET m == Head(todo[t]) IN
        db_contacts' = IF m.kind = "add" THEN InsertRow(db_contacts, m.mode, m.contact)
                       ELSE DeleteRows(db_contacts, m.contact.number)
    /\ Continue(t, <<>>)
    /\ UNCHANGED <<connVars, pairingVars, lifeVars, subscriberVars, dashVars, registryVars,
                   fleetVars, now, nOps, storeVars, db_alerts, db_detections,
                   controlVars, serialVars, ghostVars>>

\* add_gsm_contact, then _emit("gsm_update", self._gsm_contacts) for a mode it
\* accepted
AddGsmContact(t) ==
    /\ HeadOp(t, "add_contact")
    /\ LET m == Head(todo[t])
           new == AddContact(gsm_contacts, m.mode, m.contact)
       IN
        /\ gsm_contacts' = new
        /\ Continue(t, IF m.mode \in ContactModes THEN EmitSteps(Event("gsm_update", new))
                       ELSE <<>>)
    /\ UNCHANGED <<connVars, access_code, verified, lifeVars, subscriberVars, dashVars,
                   registryVars, fleetVars, now, nOps, storeVars, dbVars, controlVars,
                   serialVars, ghostVars>>

\* delete_gsm_contact, then _emit("gsm_update", self._gsm_contacts)
DeleteGsmContact(t) ==
    /\ HeadOp(t, "delete_contact")
    /\ LET new == RemoveNumber(gsm_contacts, Head(todo[t]).number) IN
        /\ gsm_contacts' = new
        /\ Continue(t, EmitSteps(Event("gsm_update", new)))
    /\ UNCHANGED <<connVars, access_code, verified, lifeVars, subscriberVars, dashVars,
                   registryVars, fleetVars, now, nOps, storeVars, dbVars, controlVars,
                   serialVars, ghostVars>>

\* POST /api/gsm/contacts
ApiAddContactSteps(mode, c) == <<OpDbContact("add", mode, c), OpAddContact(mode, c)>>

\* DELETE /api/gsm/contacts/{number}; before: what get_gsm_contacts returned
\* before the contact of that number was posted
ApiDeleteContactSteps(number, before) ==
    <<OpDbContact("delete", "", [number |-> number]), OpDeleteContact(number, before)>>

\* the contacts the model posts: one under a number no contact has, one
\* under the number of a contact that is in the store from the start
PostedContacts ==
    {[number |-> "+9", name |-> "night shift", message |-> "", category |-> "general"],
     [number |-> "+5", name |-> "fire chief", message |-> "", category |-> "fire"]}

\* the numbers the dispatch model deletes: the general call contact and the
\* general SMS contact
DeletedNumbers == {"+1", "+4"}

\* DELETE /api/gsm/contacts/{number} for a contact that is in the store
ApiDeleteContact(t) ==
    /\ t = "api"
    /\ Idle(t)
    /\ nOps < MaxDispatchOps
    /\ nOps' = nOps + 1
    /\ \E number \in DeletedNumbers :
        todo' = [todo EXCEPT ![t] = ApiDeleteContactSteps(number, gsm_contacts)]
    /\ UNCHANGED <<connVars, pairingVars, lifeVars, subscriberVars, dashVars, registryVars,
                   fleetVars, now, storeVars, dbVars, controlVars, serialVars, ghostVars>>

\* the posts and round trips of the contact model
MaxContactOps == 2

\* a client posts a contact and leaves it in place
ApiAddContact(t) ==
    /\ t = "api"
    /\ Idle(t)
    /\ nOps < MaxContactOps
    /\ nOps' = nOps + 1
    /\ \E mode \in ContactModes, c \in PostedContacts :
        todo' = [todo EXCEPT ![t] = ApiAddContactSteps(mode, c)]
    /\ UNCHANGED <<connVars, pairingVars, lifeVars, subscriberVars, dashVars, registryVars,
                   fleetVars, now, storeVars, dbVars, controlVars, serialVars, ghostVars>>

\* a client posts a contact and then deletes it by its number
ContactRoundTrip(t) ==
    /\ t = "api"
    /\ Idle(t)
    /\ nOps < MaxContactOps
    /\ nOps' = nOps + 1
    /\ \E mode \in ContactModes, c \in PostedContacts :
        todo' = [todo EXCEPT ![t] = ApiAddContactSteps(mode, c)
                                   \o ApiDeleteContactSteps(c.number, GetGsmContacts)]
    /\ UNCHANGED <<connVars, pairingVars, lifeVars, subscriberVars, dashVars, registryVars,
                   fleetVars, now, storeVars, dbVars, controlVars, serialVars, ghostVars>>

\* ------------------------------------------------------------------------
\* The pairing code (state_manager.py, server.py)
\* ------------------------------------------------------------------------
\* str(random.randint(100000, 999999)): the values the model draws
AccessCodes == {"100000", "123456", "999999"}

\* the codes the model posts to /api/verify_code: the drawn values and
\* strings next to them
CodeInputs == AccessCodes \cup {"123457", "12345", "1234567", "", " 123456"}

\* the verify calls of the pairing model
MaxVerifyOps == 2

\* str(code) of a code that is a str (VerifyCodeRequest.code: str)
Str(code) == code

\* get_access_code
GetAccessCode == access_code

\* a verify_access_code that accepts whatever is not empty
VerifyAnyCode(code) == Str(code) # ""

\* verify_access_code
VerifyAccessCode(code) == Str(code) = access_code

\* POST /api/verify_code
ApiVerifyCode(t) ==
    /\ t = "api"
    /\ Idle(t)
    /\ Len(verified) < MaxVerifyOps
    /\ \E code \in CodeInputs :
        verified' = Append(verified, [code |-> code, result |-> VerifyAccessCode(code)])
    /\ UNCHANGED <<connVars, gsm_contacts, access_code, lifeVars, subscriberVars, dashVars,
                   registryVars, fleetVars, now, nOps, storeVars, dbVars, controlVars,
                   serialVars, todo, ghostVars>>

\* ------------------------------------------------------------------------
\* Shutdown (server.py lifespan, the stop() methods)
\* ------------------------------------------------------------------------
OpStop(c) == [op |-> "stop", component |-> c]

\* the stop() calls of lifespan after its yield, in the order it makes them
ShutdownSteps == <<OpStop("sensor"), OpStop("vision"), OpStop("control"), OpStop("fleet")>>

\* the application shuts down: lifespan resumes after its yield
LifespanShutdown(t) ==
    /\ t = "api"
    /\ Idle(t)
    /\ stopped = <<>>
    /\ todo' = [todo EXCEPT ![t] = ShutdownSteps]
    /\ UNCHANGED <<connVars, pairingVars, lifeVars, subscriberVars, dashVars, registryVars,
                   fleetVars, now, nOps, storeVars, dbVars, controlVars, serialVars,
                   ghostVars>>

\* one stop() call.  SensorWorker.stop clears running and calls disconnect(),
\* which closes the port and reports the device disconnected;
\* ControlWorker.stop clears running and unsubscribes its callback inside
\* _subscriber_lock; VisionWorker.stop and WorkerManager.stop clear running
\* (the joins have timeouts and wait for nothing the model depends on)
Stop(t) ==
    /\ HeadOp(t, "stop")
    /\ LET c == Head(todo[t]).component IN
        /\ c = "control" => subscriber_lock = "none"
        /\ running' = [running EXCEPT ![c] = FALSE]
        /\ stopped' = Append(stopped, c)
        /\ serial_open' = IF c = "sensor" THEN FALSE ELSE serial_open
        /\ subscribed' = IF c = "control" THEN FALSE ELSE subscribed
        /\ Continue(t, IF c = "sensor" THEN <<OpUpdateDevice(esp32_main, FALSE)>> ELSE <<>>)
    /\ UNCHANGED <<connVars, pairingVars, session, listener, port_available, subscriberVars,
                   dashVars, registryVars, fleetVars, now, nOps, current_alert,
                   alert_history, event_queue, subscriber_lock, delivered, detections,
                   sensor_data, manual_triggers, dbVars, controlVars, serial_out,
                   ghostVars>>

\* ------------------------------------------------------------------------
\* Initial states and specifications
\* ------------------------------------------------------------------------
\* the contacts lifespan loads from the gsm_contacts table into the store
LoadedContacts == [sms |-> SmsContacts, call |-> CallContacts]

\* no verify_access_code call was made yet
NoVerify == <<>>

\* the components lifespan starts and stops
Components == {"sensor", "vision", "control", "fleet"}

\* the objects the module-level constructors and init_db leave behind
InitBase ==
    /\ now = Epoch
    /\ nOps = 0
    /\ current_alert = SAFE
    /\ alert_history = <<>>
    /\ event_queue = <<>>
    /\ subscriber_lock = "none"
    /\ subscribed = TRUE
    /\ delivered = <<>>
    /\ detections = <<>>
    /\ sensor_data = [raining |-> 0, earthquake |-> <<0, 0>>]
    /\ manual_triggers = <<>>
    /\ db_alerts = <<>>
    /\ db_detections = <<>>
    /\ db_contacts = [call |-> CallContacts, sms |-> SmsContacts]
    /\ last_alert_change = 0
    /\ gsm_status = GSM_IDLE
    /\ serial_out = <<>>
    /\ setAlertCall = [t \in Threads |-> [state |-> SAFE, status |-> "none"]]
    /\ lastSetBy = "none"
    /\ observers = <<>>
    /\ notified = <<>>
    /\ connections = {}
    /\ received = [c \in Clients |-> <<>>]
    /\ issued = <<>>
    /\ storeLog = {}
    /\ reply = NoReply
    /\ session = [w \in WorkerIds |-> NoSession]
    /\ listener = "listening"
    /\ stopped = <<>>
    /\ verified = NoVerify

\* the coordinator once lifespan has started every component: the serial
\* port open, the control loop and the cleanup loop at the top of a pass
InitStarted ==
    /\ serial_open = TRUE
    /\ port_available = TRUE
    /\ running = [c \in Components |-> TRUE]
    /\ todo = [t \in Threads |-> IF t = "control" THEN <<OpCtlTop>>
                                  ELSE IF t = "cleanup" THEN <<OpCleanupTop>>
                                  ELSE <<>>]
    /\ gsm_contacts = LoadedContacts

\* the access code is the one of AccessCodes the model fixes outside the
\* pairing model
InitCoordinator ==
    /\ InitBase
    /\ InitStarted
    /\ access_code = "123456"

Init == InitCoordinator /\ InitFleet(<<>>)

ThreadStep(t) ==
    \/ SetAlertLocked(t)
    \/ Put(t)
    \/ Deliver(t)
    \/ AddDetection(t)
    \/ UpdateSensor(t)
    \/ TriggerManualAction(t)
    \/ Release(t)
    \/ HandleDetection(t)
    \/ HandleSensor(t)
    \/ TriggerAlert(t)
    \/ SendLedCommand(t)
    \/ TriggerGsmEmergency(t)
    \/ GsmCallAttempt(t)
    \/ SendGsmMessage(t)
    \/ SmsSend(t)
    \/ ControlLoopTop(t)
    \/ ControlLoopStale(t)

EnvStep(t) ==
    \/ Detect(t)
    \/ Telemetry(t)
    \/ ApiSetAlert(t)
    \/ ApiManualTrigger(t)

Next ==
    \/ \E t \in Threads : ThreadStep(t)
    \/ \E t \in Threads : EnvStep(t)
    \/ Tick

Spec == Init /\ [][Next]_vars

\* every thread that can take a step eventually takes one (the threads are
\* operating-system threads; none is starved)
FairSpec == Spec /\ \A t \in Threads : WF_vars(ThreadStep(t))

\* the vision worker with its cameras and the fleet with W registered workers
FleetInit ==
    /\ InitCoordinator
    /\ \E W \in 0..MaxWorkers : InitFleet([w \in 1..W |-> w])

FleetStep(t) ==
    \/ CameraLoop(t)
    \/ FrameCounterStore(t)
    \/ ProcessFrameDecide(t)
    \/ DistributeSelect(t)
    \/ DistributeTaskSync(t)
    \/ DistributeWait(t)
    \/ DistributeRetrieve(t)
    \/ LocalInference(t)
    \/ HandleWorkerResult(t)
    \/ AddDetection(t)
    \/ Put(t)
    \/ Deliver(t)

FleetNext ==
    \/ \E t \in Threads : FleetStep(t)
    \/ \E w \in WorkerIds : WorkerReply(w)

FleetSpec == FleetInit /\ [][FleetNext]_vars

\* the manual actions and the evacuation request, which run the GSM
\* emergency sequence on the control thread and on the API thread
GsmStep(t) ==
    \/ ApiManualTrigger(t)
    \/ ApiEvacuate(t)
    \/ TriggerManualAction(t)
    \/ ControlLoopTop(t)
    \/ ControlLoopStale(t)
    \/ SetAlertLocked(t)
    \/ Put(t)
    \/ Deliver(t)
    \/ SendLedCommand(t)
    \/ TriggerGsmEmergency(t)
    \/ GsmCallAttempt(t)
    \/ SendGsmMessage(t)
    \/ SmsSend(t)

GsmNext == \E t \in Threads : GsmStep(t)

GsmSpec == Init /\ [][GsmNext]_vars

\* detections and posted alert levels, with quiet periods longer than
\* stale_alert_seconds between them
StaleStep(t) ==
    \/ AddDetection(t)
    \/ Put(t)
    \/ Deliver(t)
    \/ Release(t)
    \/ HandleDetection(t)
    \/ TriggerAlert(t)
    \/ SetAlertLocked(t)
    \/ SendLedCommand(t)
    \/ ControlLoopTop(t)

StaleNext ==
    \/ \E t \in Threads : StaleStep(t)
    \/ Detect("detector")
    \/ ApiSetAlert("api")
    \/ Quiet

StaleSpec == Init /\ [][StaleNext]_vars /\ \A t \in Threads : WF_vars(StaleStep(t))

\* a dashboard client, the broadcaster, and set_alert calls of the API and
\* of the control loop
DashStep(t) ==
    \/ WsConnect(t)
    \/ GetFullStateRead(t)
    \/ SendInit(t)
    \/ BroadcastStateEvents(t)
    \/ ApiSetAlert(t)
    \/ SetAlertLocked(t)
    \/ Put(t)
    \/ Deliver(t)
    \/ SendLedCommand(t)
    \/ ControlLoopTop(t)

DashNext == \E t \in Threads : DashStep(t)

DashSpec == Init /\ [][DashNext]_vars

\* the status endpoint read while detections and telemetry arrive
SnapshotStep(t) ==
    \/ GetStatus(t)
    \/ GetFullStateRead(t)
    \/ ReplyStatus(t)
    \/ Detect(t)
    \/ Telemetry(t)
    \/ AddDetection(t)
    \/ UpdateSensor(t)
    \/ Put(t)
    \/ Deliver(t)
    \/ HandleDetection(t)
    \/ HandleSensor(t)
    \/ TriggerAlert(t)
    \/ SetAlertLocked(t)

SnapshotNext == \E t \in Threads : SnapshotStep(t)

SnapshotSpec == Init /\ [][SnapshotNext]_vars

\* detections reported by a worker, one of them malformed
ReportedDetections == {<<"Smoke", 45>>, <<"Fire", None>>}

\* a worker's inference_result carries one detection, which _handle_worker
\* hands to state.add_detection
ReportDetection(t) ==
    /\ t \in Handlers
    /\ \E d \in ReportedDetections : Start(t, <<OpAddDetection(d[1], d[2], nOps + 1)>>)
    /\ UNCHANGED <<connVars, pairingVars, lifeVars, subscriberVars, dashVars, registryVars, fleetVars,
                   now, storeVars,
                   dbVars, controlVars, serialVars, ghostVars>>

\* observers subscribe while detections are emitted
SubscriberStep(t) ==
    \/ Subscribe(t)
    \/ ReportDetection(t)
    \/ AddDetection(t)
    \/ Put(t)
    \/ Deliver(t)
    \/ Notify(t)
    \/ Release(t)

SubscriberNext == \E t \in Threads : SubscriberStep(t)

SubscriberSpec == Init /\ [][SubscriberNext]_vars

\* a burst of manual actions, taken by the control loop one per pass
ManualStep(t) ==
    \/ ManualBurst(t)
    \/ TriggerManualAction(t)
    \/ Put(t)
    \/ Deliver(t)
    \/ ControlLoopTop(t)
    \/ ControlLoopStale(t)

ManualNext == \E t \in Threads : ManualStep(t)

ManualSpec == Init /\ [][ManualNext]_vars

\* a burst of detections that fills the ring and the event queue
BurstStep(t) ==
    \/ DetectBurst(t)
    \/ AddDetection(t)
    \/ Put(t)
    \/ Deliver(t)

BurstNext == \E t \in Threads : BurstStep(t)

BurstSpec == Init /\ [][BurstNext]_vars

\* the worker sessions, the cleanup thread and the worker listing
SessionStep(t) ==
    \/ WorkerMessage(t)
    \/ HandleWorkerSession(t)
    \/ UpdateDevice(t)
    \/ DelWorker(t)
    \/ CleanupLoopTop(t)
    \/ CleanupScan(t)
    \/ CleanupSleep(t)
    \/ CleanupWake(t)
    \/ GetWorkers(t)
    \/ Put(t)
    \/ Deliver(t)

SessionNext ==
    \/ \E t \in Threads : SessionStep(t)
    \/ SessionTick

SessionSpec == Init /\ [][SessionNext]_vars

\* ------------------------------------------------------------------------
\* Properties of the alert path
\* ------------------------------------------------------------------------
\* thread t is inside set_alert: past the locked block, before _emit returned
InSetAlert(t) == setAlertCall[t].status = "applied"

\* the alert_change events of a sequence of events, in order
RECURSIVE AlertChanges(_)
AlertChanges(q) ==
    IF q = <<>> THEN <<>>
    ELSE IF Head(q).type = "alert_change" THEN <<Head(q)>> \o AlertChanges(Tail(q))
         ELSE AlertChanges(Tail(q))

\* on thread t, _trigger_alert passed the debounce test for DANGER after a
\* Fire detection and is about to call state.set_alert
FireTriggered(t) ==
    /\ HeadOp(t, "set_alert")
    /\ Head(todo[t]).state = DANGER
    /\ Head(todo[t]).reason = DetectedReason("Fire")
    /\ serial_open

\* thread t still has to send the LED command for alert a
LedPending(t, a) == \E i \in 1..Len(todo[t]) : todo[t][i] = OpLed(a)

LedWritten(a) ==
    \E i \in 1..Len(serial_out) : serial_out[i] = [cmd |-> "set_alert", alert |-> a]

\* C1: a Fire detection that makes the Control Engine raise DANGER with the
\* serial link connected leads to the thread that handles it writing a
\* set_alert command with alert 3 to the serial link (the step that precedes
\* the gsm_call commands).
C1_FireLeadsToLedCommand ==
    \A t \in Threads :
        FireTriggered(t) ~> (~LedPending(t, DANGER) /\ LedWritten(DANGER))

\* C2: an entry of the transition log that lowers the alert to CALLING or
\* below was written at least alert_debounce_seconds after the entry that
\* set the higher alert it replaces.
C2_NoLoweringInsideDebounce ==
    \A i \in 2..Len(alert_history) :
        LET e == alert_history[i]
            prev == alert_history[i - 1]
        IN (AlertLevel(e.to) <= CALLING /\ AlertLevel(e.to) < AlertLevel(e.from))
           => e.timestamp - prev.timestamp >= alert_debounce_seconds

\* a telemetry line with critical precipitation arrives when the alert is
\* below DANGER and the last successful trigger is at least
\* alert_debounce_seconds old
LateQualifyingEvent ==
    /\ HeadOp("sensor", "update_sensor")
    /\ Head(todo["sensor"]).raining >= water_danger_threshold
    /\ last_alert_change >= Epoch
    /\ ~Debounced(now, last_alert_change)

\* C3: a qualifying event that arrives alert_debounce_seconds or more after
\* the last successful trigger is handled: its thread issues a SetAlert, or
\* its handler returns without one (the alert it finds is already DANGER or
\* above, or a newer trigger has restarted the window).
C3_LateEventTriggers ==
    LateQualifyingEvent ~> (setAlertCall["sensor"].status # "none" \/ Idle("sensor"))

\* C4: once a thread's set_alert(x) returned and no later set_alert was
\* applied, get_alert() returns x.
C4_GetAlertReturnsLastSet ==
    \A t \in Threads :
        (setAlertCall[t].status = "returned" /\ lastSetBy = t)
        => current_alert = setAlertCall[t].state

C4_Witness ==
    /\ setAlertCall["api"].status = "returned"
    /\ setAlertCall["control"].status = "returned"
    /\ lastSetBy = "api"
    /\ setAlertCall["api"].state = CALLING
    /\ setAlertCall["control"].state = SAFE

\* thread t takes the locked step of a set_alert(x, r) call
SetAlertStepOf(t) == HeadOp(t, "set_alert") /\ todo'[t] # todo[t]

\* C5: a set_alert(x, r) step with x different from the alert it finds
\* appends exactly the entry {from: previous, to: x, reason: r} to the
\* transition log, and no other step changes the log.
C5_OneEntryPerChange ==
    [][/\ \A t \in Threads :
            (SetAlertStepOf(t) /\ Head(todo[t]).state # current_alert)
            => /\ Len(alert_history') = Len(alert_history) + 1
               /\ LET e == alert_history'[Len(alert_history')] IN
                    /\ e.from = AlertName(current_alert)
                    /\ e.to = AlertName(Head(todo[t]).state)
                    /\ e.reason = Head(todo[t]).reason
               /\ SubSeq(alert_history', 1, Len(alert_history)) = alert_history
       /\ alert_history' # alert_history
            => \E t \in Threads :
                   SetAlertStepOf(t) /\ Head(todo[t]).state # current_alert]_vars

C5_Witness ==
    /\ Len(alert_history) = 2
    /\ alert_history[1].to = "DANGER"
    /\ alert_history[2].to = "SAFE"
    /\ Len(db_alerts) > 2

\* C6: set_alert calls that find the alert already at x leave no trace: the
\* persisted alert log, the fan-out queue and the subscriber hold at most one
\* alert row or alert_change event per entry of the transition log.
C6_EqualSetAlertIsNoOp ==
    /\ Len(db_alerts) <= Len(alert_history)
    /\ Len(AlertChanges(event_queue)) <= Len(alert_history)
    /\ Len(AlertChanges(delivered)) <= Len(alert_history)

\* C7: when no set_alert call is in progress, the last alert_change put on
\* the fan-out queue and the last one handed to the subscriber carry the
\* value get_alert() returns.
C7_LastEventCarriesCurrent ==
    (\A t \in Threads : ~InSetAlert(t))
    => /\ LET q == AlertChanges(event_queue) IN
            q # <<>> => q[Len(q)].data.value = current_alert
       /\ LET d == AlertChanges(delivered) IN
            d # <<>> => d[Len(d)].data.value = current_alert

\* ------------------------------------------------------------------------
\* Properties of the vision worker and the fleet
\* ------------------------------------------------------------------------
\* the frames camera c has read so far
FramesOf(c) == 1..Len(frameLog[c])

\* _process_frame is through with frame f of camera c
FrameDone(c, f) == f < frame_count[c] \/ todo[c] = <<>>

\* C8: a detection list distribute_task_sync returns for a dispatch comes
\* from an inference_result that answers the task of that dispatch.
C8_ResultAnswersOwnDispatch ==
    \A c \in Cameras : \A f \in FramesOf(c) :
        frameLog[c][f].returned.set => frameLog[c][f].returned.sentTo = c

\* C9: a frame that was offloaded and is done was processed exactly once:
\* by the remote result distribute_task_sync returned, or by local inference.
C9_OffloadedFrameProcessedOnce ==
    \A c \in Cameras : \A f \in FramesOf(c) :
        (frameLog[c][f].decided /\ frameLog[c][f].offload /\ FrameDone(c, f))
        => Cardinality(frameLog[c][f].outcome) = 1

\* C10: the frame whose increment gave frame_counter the value C is
\* offloaded iff W > 0 and C mod (W+1) # 0, W being the number of workers.
C10_OffloadIffCounterNotMultiple ==
    \A c \in Cameras : \A f \in FramesOf(c) :
        frameLog[c][f].decided
        => (frameLog[c][f].offload <=> ShouldOffload(frameLog[c][f].counter, Len(workers)))

\* camera c is inside distribute_task_sync for frame_id f, past the send
InDistribute(c, f) ==
    /\ todo[c] # <<>>
    /\ Head(todo[c]).op \in {"wait", "retrieve"}
    /\ Head(todo[c]).frame_id = f

\* thread t takes a step in which its distribute_task_sync call returns
\* (without a worker, after a failed send, or after the wait)
DistributeReturns(t) ==
    /\ todo'[t] # todo[t]
    /\ \/ HeadOp(t, "dispatch") /\ Head(todo'[t]).op = "local"
       \/ HeadOp(t, "target") /\ t \notin crashed' /\ Head(todo'[t]).op = "local"
       \/ HeadOp(t, "retrieve") /\ t \notin crashed'

C12_NoStaleWorkerListed ==
    "cleanup" \notin crashed
    => \A i \in DOMAIN listing.workers :
          listing.at - listing.workers[i].last_seen <= HEARTBEAT_TIMEOUT

\* thread t is inside a registration or a removal: it has a message to
\* handle, a device record to write or an entry to delete
Updating(t) ==
    \E i \in DOMAIN todo[t] : todo[t][i].op \in {"session", "update_device", "del_worker"}

\* the device record of worker w says connected
DeviceConnected(w) ==
    DeviceOf(w) \in DOMAIN devices /\ devices[DeviceOf(w)].connected

\* C35: whenever no thread is inside a registration or a removal, a worker
\* is in the worker map exactly when its device record says connected
C35_RegisteredIffConnected ==
    (\A t \in Threads : ~Updating(t))
    => \A w \in WorkerIds : Registered(w) <=> DeviceConnected(w)

\* ------------------------------------------------------------------------
\* Properties of the GSM emergency sequence
\* ------------------------------------------------------------------------
\* thread t is inside the call loop of _trigger_gsm_emergency
InGsmSequence(t) == HeadOp(t, "gsm_call")

\* C13: at most one GSM emergency sequence of the Control Engine is in
\* progress at any time
C13_OneGsmSequence == Cardinality({t \in Threads : InGsmSequence(t)}) <= 1

\* ------------------------------------------------------------------------
\* Properties of the stale-alert reset
\* ------------------------------------------------------------------------
\* the alert became DANGER more than stale_alert_seconds ago and is DANGER still
DangerIsStale ==
    /\ current_alert = DANGER
    /\ alert_history # <<>>
    /\ now - alert_history[Len(alert_history)].timestamp > stale_alert_seconds

\* C14: an alert that has been DANGER for more than 600 s is set to SAFE by
\* the control loop
C14_StaleDangerCleared == DangerIsStale ~> (current_alert = SAFE)

\* the transition log's entries that changed the level
ChangeEntries == SelectSeq(alert_history, LAMBDA e : e.from # e.to)

\* thread t makes the stale-alert check of a pass and calls set_safe_mode
StaleReset(t) ==
    /\ \/ ControlLoopTop(t) /\ manual_triggers = <<>>
       \/ ControlLoopStale(t)
    /\ Len(todo'[t]) >= Len(SetSafeModeSteps)
    /\ SubSeq(todo'[t], 1, Len(SetSafeModeSteps)) = SetSafeModeSteps

\* C28: the stale-alert check calls set_safe_mode only when the alert is
\* above SAFE and its last change, by whatever path it was made, is more
\* than 600 s old
C28_OnlyStaleAlertCleared ==
    [][\A t \in Threads :
          StaleReset(t) =>
             /\ current_alert > SAFE
             /\ ChangeEntries # <<>>
             /\ now - ChangeEntries[Len(ChangeEntries)].timestamp > 600]_vars

\* ------------------------------------------------------------------------
\* Properties of the dashboards
\* ------------------------------------------------------------------------
\* the data of the alert_change messages among msgs, in order
RECURSIVE AlertMessages(_)
AlertMessages(msgs) ==
    IF msgs = <<>> THEN <<>>
    ELSE IF Head(msgs).type = "alert_change"
         THEN <<Head(msgs).data>> \o AlertMessages(Tail(msgs))
         ELSE AlertMessages(Tail(msgs))

\* a can be had from b by leaving elements out
RECURSIVE IsSubSeq(_, _)
IsSubSeq(a, b) ==
    IF a = <<>> THEN TRUE
    ELSE IF b = <<>> THEN FALSE
    ELSE IF Head(a) = Head(b) THEN IsSubSeq(Tail(a), Tail(b))
    ELSE IsSubSeq(a, Tail(b))

\* C15: a client's first message is init, and its alert_change messages
\* come one per set_alert call, in the order the calls were made
C15_InitThenAlertChangesInOrder ==
    \A c \in Clients :
        /\ received[c] # <<>> => received[c][1].type = "init"
        /\ IsSubSeq(AlertMessages(received[c]), issued)

\* C19: the dict GET /api/status returns equals the contents the store had
\* at some instant of the call
C19_StatusIsOneInstant == reply.set => reply.data \in storeLog

\* ------------------------------------------------------------------------
\* Properties of the bounded collections
\* ------------------------------------------------------------------------
Min(a, b) == IF a < b THEN a ELSE b

\* the detections add_detection has put in the ring so far, in order
AddedSoFar ==
    LET n == IF HeadOp("detector", "add_detection") THEN nOps - 1 ELSE nOps
    IN  [i \in 1..n |-> BurstDetection(i)]

\* the limits GetDetections is asked with
RingLimits == {1, 20, 100, 150}

\* C16: the ring holds at most max_detections detections, the most recent
\* ones in insertion order, and GetDetections(k) returns the last
\* min(k, max_detections) detections added
C16_RingHoldsMostRecent ==
    /\ Len(detections) <= max_detections
    /\ detections = LastN(AddedSoFar, max_detections)
    /\ \A k \in RingLimits :
          GetDetections(detections, k) = LastN(AddedSoFar, Min(k, max_detections))

\* more detections were added than the ring holds
C16_Witness == Len(AddedSoFar) > max_detections /\ Len(detections) = max_detections

\* the events emitted so far, in order: those the subscriber was invoked
\* with, and the one whose callbacks are still to run
EmittedSoFar ==
    delivered \o (IF HeadOp("detector", "deliver")
                  THEN <<Head(todo["detector"]).event>> ELSE <<>>)

\* C17: event_queue never holds more than event_queue_maxsize events; an
\* event emitted on a full queue is dropped and the queued events stay as
\* they are, and the subscriber is invoked with every event all the same
C17_FullQueueDropsNewEvent ==
    /\ Len(event_queue) <= event_queue_maxsize
    /\ event_queue = SubSeq(EmittedSoFar, 1, Min(Len(EmittedSoFar), event_queue_maxsize))
    /\ Idle("detector") => Len(delivered) = nOps

\* an event was dropped by the full queue and delivered to the subscriber
C17_Witness ==
    /\ Len(event_queue) = event_queue_maxsize
    /\ Len(delivered) > event_queue_maxsize
    /\ delivered[Len(delivered)] # event_queue[Len(event_queue)]

\* C18: the manual-action queue never holds more than
\* manual_triggers_maxsize actions, and a queue that holds any action holds
\* the newest one posted, at its end
C18_NewestManualActionKept ==
    /\ Len(manual_triggers) <= manual_triggers_maxsize
    /\ (manual_triggers # <<>> /\ ~HeadOp("api", "manual"))
        => manual_triggers[Len(manual_triggers)].details = ToString(nOps)

\* ------------------------------------------------------------------------
\* Properties of the subscribers
\* ------------------------------------------------------------------------
\* C20: whenever no emission is under way, every observer has been invoked
\* with every event emitted since it subscribed, in order, whichever
\* callbacks raised; and every add_detection that was called has returned
\* with its detection in the ring
C20_RaisingCallbackIsIsolated ==
    subscriber_lock = "none"
    => /\ \A i \in DOMAIN observers :
             notified[i] = SubSeq(delivered, observers[i].since + 1, Len(delivered))
       /\ (\A t \in Handlers : Idle(t))
          => /\ crashed = {}
             /\ Len(detections) = nOps

\* a callback raised for an event and an observer after it was invoked with
\* that event all the same
C20_Witness ==
    /\ subscriber_lock = "none"
    /\ \E j \in DOMAIN observers :
        /\ notified[j] # <<>>
        /\ \/ CallbackRaises(notified[j][1])
           \/ \E i \in 1..(j - 1) : observers[i].raises

\* ------------------------------------------------------------------------
\* Worker connections and the messages read on them
\* ------------------------------------------------------------------------
ProtocolStep(t) ==
    \/ Accept(t)
    \/ WorkerSends(t)
    \/ HandleWorkerSession(t)
    \/ UpdateDevice(t)
    \/ DelWorker(t)
    \/ AddDetection(t)
    \/ Put(t)
    \/ Deliver(t)

ProtocolNext == \E t \in Threads : ProtocolStep(t)

ProtocolSpec == Init /\ [][ProtocolNext]_vars

\* C21: a connection on which a malformed message was read (and which the
\* peer has not closed since) is still open, and a worker that was registered
\* when the message was read is still in the worker map with its device
\* record connected
C21_MalformedMessageKeepsSession ==
    \A w \in WorkerIds :
        session[w].dropped
        => /\ session[w].open
           /\ session[w].registered
              => /\ Registered(w)
                 /\ DeviceOf(w) \in DOMAIN devices
                 /\ devices[DeviceOf(w)].connected

\* ------------------------------------------------------------------------
\* The serial link from init_sensor_worker on
\* ------------------------------------------------------------------------
\* lifespan is about to call init_sensor_worker: nothing runs yet, the port
\* is present or not
SerialInit ==
    /\ InitBase
    /\ InitFleet(<<>>)
    /\ serial_open = FALSE
    /\ port_available \in BOOLEAN
    /\ running = [c \in Components |-> FALSE]
    /\ todo = [t \in Threads |-> IF t = "api" THEN <<OpConnect("start")>> ELSE <<>>]
    /\ gsm_contacts = [sms |-> <<>>, call |-> <<>>]
    /\ access_code = "123456"

SerialStep(t) ==
    \/ Connect(t)
    \/ SpawnReadLoop(t)
    \/ ReadLoop(t)
    \/ UpdateDevice(t)
    \/ UpdateSensor(t)
    \/ Put(t)
    \/ Deliver(t)
    \/ HandleSensor(t)
    \/ Release(t)

SerialNext ==
    \/ \E t \in Threads : SerialStep(t)
    \/ PortChange

\* every thread that can take a step eventually takes one
SerialSpec == SerialInit /\ [][SerialNext]_vars /\ \A t \in Threads : WF_vars(SerialStep(t))

EspConnected ==
    /\ serial_open
    /\ esp32_main \in DOMAIN devices
    /\ devices[esp32_main].connected

EspDisconnected ==
    /\ esp32_main \in DOMAIN devices
    /\ ~devices[esp32_main].connected

\* C22: a link that is not open leads to the device being marked
\* disconnected (or to the link being open again), and the port does not stay
\* available for good without the device being marked connected again
C22_SerialLinkReconnects ==
    /\ (~serial_open) ~> (serial_open \/ EspDisconnected)
    /\ []<>(~port_available \/ EspConnected)

\* ------------------------------------------------------------------------
\* Shutdown with worker connections open
\* ------------------------------------------------------------------------
ShutdownStep(t) ==
    \/ Accept(t)
    \/ WorkerSends(t)
    \/ HandleWorkerSession(t)
    \/ UpdateDevice(t)
    \/ DelWorker(t)
    \/ AddDetection(t)
    \/ Put(t)
    \/ Deliver(t)
    \/ LifespanShutdown(t)
    \/ Stop(t)

ShutdownNext == \E t \in Threads : ShutdownStep(t)

ShutdownSpec == Init /\ [][ShutdownNext]_vars

\* lifespan has made its last stop() call
ShutdownComplete == Len(stopped) = Len(ShutdownSteps) /\ Idle("api")

\* the place of component c in the order of the stop() calls
StopIndex(c) == CHOOSE i \in DOMAIN stopped : stopped[i] = c

\* C23: once shutdown is complete the listener is closed, no worker
\* connection is open, every pending task has its event set and an empty
\* result, and the fleet was stopped after the vision pipeline and before
\* the serial sensor link
C23_ShutdownClosesFleet ==
    ShutdownComplete
    => /\ listener = "closed"
       /\ \A w \in WorkerIds : ~session[w].open
       /\ \A f \in DOMAIN pending_tasks :
             /\ event_set[pending_tasks[f].event]
             /\ pending_tasks[f].result = ResultOf([detections |-> <<>>])
       /\ StopIndex("vision") < StopIndex("fleet")
       /\ StopIndex("fleet") < StopIndex("sensor")

\* ------------------------------------------------------------------------
\* The contact list
\* ------------------------------------------------------------------------
ContactStep(t) ==
    \/ ApiAddContact(t)
    \/ ContactRoundTrip(t)
    \/ DbGsmNumber(t)
    \/ AddGsmContact(t)
    \/ DeleteGsmContact(t)
    \/ Put(t)
    \/ Deliver(t)

ContactNext == \E t \in Threads : ContactStep(t)

ContactSpec == Init /\ [][ContactNext]_vars

\* C24: the delete that ends a round trip leaves get_gsm_contacts equal to
\* what it returned before the round trip's add
C24_AddDeleteIsIdentity ==
    [][\A t \in Threads :
          DeleteGsmContact(t) => GetGsmContacts' = Head(todo[t]).before]_vars

\* ------------------------------------------------------------------------
\* The pairing code
\* ------------------------------------------------------------------------
\* the coordinator started, with the code its constructor drew
PairingInit ==
    /\ InitBase
    /\ InitStarted
    /\ InitFleet(<<>>)
    /\ access_code \in AccessCodes

PairingStep(t) ==
    \/ ApiVerifyCode(t)
    \/ ApiAddContact(t)
    \/ DbGsmNumber(t)
    \/ AddGsmContact(t)
    \/ Put(t)
    \/ Deliver(t)

PairingNext == \E t \in Threads : PairingStep(t)

PairingSpec == PairingInit /\ [][PairingNext]_vars

\* C25: no step changes the access code, and every verify_access_code call
\* returned true if its argument was the code get_access_code returns and
\* false if it was anything else
C25_VerifyIffAccessCode ==
    /\ [][access_code' = access_code]_vars
    /\ [](\A i \in DOMAIN verified :
            verified[i].result <=> verified[i].code = GetAccessCode)

\* one call with the access code returned true and one with another code
\* returned false
C25_Witness ==
    \E i, j \in DOMAIN verified :
        /\ verified[i].code = GetAccessCode /\ verified[i].result
        /\ verified[j].code # GetAccessCode /\ ~verified[j].result

\* ------------------------------------------------------------------------
\* The decisions of the Control Engine on detections
\* ------------------------------------------------------------------------
DecisionStep(t) ==
    \/ ApiSetAlert(t)
    \/ DetectAny(t)
    \/ SetAlertLocked(t)
    \/ AddDetection(t)
    \/ Put(t)
    \/ Deliver(t)
    \/ Release(t)
    \/ HandleDetection(t)
    \/ TriggerAlert(t)
    \/ SendLedCommand(t)

DecisionNext == \E t \in Threads : DecisionStep(t)

DecisionSpec == Init /\ [][DecisionNext]_vars

\* the _trigger_alert calls a step of thread t put in front of what the
\* thread had left to run
TriggersAdded(t) ==
    SelectSeq(SubSeq(todo'[t], 1, Len(todo'[t]) - Len(Rest(t))), LAMBDA m : m.op = "trigger")

\* the levels of those calls
LevelsTriggered(t) == [i \in DOMAIN TriggersAdded(t) |-> TriggersAdded(t)[i].alert]

\* C26: the callback invoked with a detection of confidence below 0.5 calls
\* _trigger_alert for nothing; _handle_detection, for a confidence from 0.5
\* on, calls it for DANGER exactly when the class is Fire, Explosion, Flood
\* or Collapsed Structure and the current alert is below DANGER, for CALLING
\* exactly when the class is Smoke, Falling Debris or Landslide and the
\* current alert is below CALLING, and for nothing otherwise
C26_DetectionDecision ==
    [][\A t \in Threads :
          /\ Deliver(t) /\ Head(todo[t]).event.type = "detection"
                        /\ Head(todo[t]).event.data.confidence < 50
             => /\ LevelsTriggered(t) = <<>>
                /\ \A i \in DOMAIN todo'[t] : todo'[t][i].op # "handle_detection"
          /\ HandleDetection(t)
             => LET d == Head(todo[t]).data IN
                /\ d.confidence >= 50
                /\ LevelsTriggered(t) =
                      IF d.class \in {"Fire", "Explosion", "Flood", "Collapsed Structure"}
                         /\ current_alert < DANGER
                      THEN <<DANGER>>
                      ELSE IF d.class \in {"Smoke", "Falling Debris", "Landslide"}
                              /\ current_alert < CALLING
                      THEN <<CALLING>>
                      ELSE <<>>]_vars

\* _handle_detection called _trigger_alert with CALLING for a landslide seen
\* with confidence 0.5
C26_Witness ==
    \E t \in Threads :
        /\ HeadOp(t, "trigger")
        /\ Head(todo[t]).alert = CALLING
        /\ Head(todo[t]).reason = WarningReason("Landslide")
        /\ \E i \in DOMAIN delivered :
              /\ delivered[i].type = "detection"
              /\ delivered[i].data.class = "Landslide"
              /\ delivered[i].data.confidence = 50

\* ------------------------------------------------------------------------
\* The decisions of the Control Engine on sensor readings
\* ------------------------------------------------------------------------
\* thread t, handling telemetry with raining 75, is about to call
\* state.set_alert(DANGER, "Precipitation level critical: 75.0%") with the
\* serial link connected
RainTriggered(t) ==
    /\ HeadOp(t, "set_alert")
    /\ Head(todo[t]).state = DANGER
    /\ Head(todo[t]).reason = PrecipitationReason(75)
    /\ serial_open

\* a gsm_call command for number was written to the serial link
CallWritten(number) ==
    \E i \in 1..Len(serial_out) :
        serial_out[i].cmd = "gsm_call" /\ serial_out[i].number = number

\* the levels _handle_sensor calls _trigger_alert with follow the thresholds
SensorDecision ==
    [][\A t \in Threads :
          HandleSensor(t) =>
             LET d == Head(todo[t]).data
                 tilt == IF d.earthquake = <<>> THEN 0
                         ELSE Abs(d.earthquake[1]) + Abs(d.earthquake[2])
                 levels == {LevelsTriggered(t)[i] : i \in DOMAIN LevelsTriggered(t)}
             IN /\ (d.raining >= 70 /\ current_alert < DANGER) => DANGER \in levels
                /\ (d.raining >= 40 /\ d.raining < 70 /\ current_alert < CALLING)
                      => CALLING \in levels
                /\ (tilt > 30 /\ current_alert < CALLING) => CALLING \in levels
                /\ (d.raining = 75 /\ current_alert < DANGER)
                      => \E i \in DOMAIN TriggersAdded(t) :
                            /\ TriggersAdded(t)[i].alert = DANGER
                            /\ TriggersAdded(t)[i].reason = "Precipitation level critical: 75.0%"]_vars

\* C27: _handle_sensor calls _trigger_alert with DANGER for precipitation of
\* 70 or more under an alert below DANGER, with CALLING for precipitation
\* from 40 to below 70 under an alert below CALLING, and with CALLING for a
\* tilt |x| + |y| above 30 under an alert below CALLING; and the SetAlert to
\* DANGER that telemetry with raining 75 causes (its reason holds 75) leads
\* to gsm_call commands to the call contacts of the categories general and
\* rain.
C27_SensorDecisionAndRainCalls ==
    /\ SensorDecision
    /\ \A t \in Threads : RainTriggered(t) ~> (CallWritten("+1") /\ CallWritten("+3"))

\* ------------------------------------------------------------------------
\* Manual actions and the GSM sequences they run
\* ------------------------------------------------------------------------
\* the coordinator started with the serial device present or absent
\* (SensorWorker.start returns False for an absent one and the port stays
\* closed)
DispatchInit ==
    /\ InitBase
    /\ InitFleet(<<>>)
    /\ serial_open \in BOOLEAN
    /\ port_available = serial_open
    /\ running = [c \in Components |-> IF c = "sensor" THEN serial_open ELSE TRUE]
    /\ todo = [t \in Threads |-> IF t = "control" THEN <<OpCtlTop>> ELSE <<>>]
    /\ gsm_contacts = LoadedContacts
    /\ access_code = "123456"

DispatchStep(t) ==
    \/ ApiManualAny(t)
    \/ ApiDeleteContact(t)
    \/ DbGsmNumber(t)
    \/ DeleteGsmContact(t)
    \/ TriggerManualAction(t)
    \/ Put(t)
    \/ Deliver(t)
    \/ ControlLoopTop(t)
    \/ ControlLoopStale(t)
    \/ TriggerGsmEmergency(t)
    \/ GsmCallAttempt(t)
    \/ SendGsmMessage(t)
    \/ SmsSend(t)
    \/ SendLedCommand(t)
    \/ SetAlertLocked(t)

DispatchNext == \E t \in Threads : DispatchStep(t)

DispatchSpec == DispatchInit /\ [][DispatchNext]_vars

\* the contacts among list whose category is general or c, in list order
Matching(list, c) == SelectSeq(list, LAMBDA k : k.category \in {"general", c})

\* C29: a GSM emergency sequence for category c starts its calls with the
\* call contacts of category general or c, in contact order; every call
\* attempt is one of at most 5 to its contact, a failed one followed by the
\* next attempt to the same contact while fewer than 5 were made and a
\* successful one by the next contact; after the calls (also when there is
\* nobody to call) the SMS part runs while an SMS contact of category
\* general or c exists, and it sends a gsm_sms command to each of them.
C29_GsmSequenceCallsThenSms ==
    [][\A t \in Threads :
          LET m == Head(todo[t])
              next == Head(todo'[t])
              calling == todo'[t] # <<>> /\ next.op = "gsm_call"
              messaging == todo'[t] # <<>> /\ next.op = "sms" /\ next.category = m.category
          IN
          /\ (TriggerGsmEmergency(t) /\ ~m.spawn) =>
                LET callList == Matching(db_contacts.call, m.category) IN
                IF callList # <<>>
                THEN calling /\ next.list = callList /\ next.i = 1 /\ next.retries = 0
                ELSE Matching(db_contacts.sms, m.category) # <<>> => messaging
          /\ GsmCallAttempt(t) =>
                /\ m.list[m.i].category \in {"general", m.category}
                /\ m.retries < 5
                /\ IF ~serial_open /\ m.retries + 1 < 5
                   THEN calling /\ next.i = m.i /\ next.retries = m.retries + 1
                   ELSE IF m.i < Len(m.list)
                   THEN calling /\ next.i = m.i + 1 /\ next.retries = 0
                   ELSE messaging
          /\ SendGsmMessage(t) =>
                LET smsList == Matching(db_contacts.sms, m.category) IN
                smsList # <<>> => /\ todo'[t] # <<>>
                                  /\ next.op = "sms_send"
                                  /\ next.list = smsList
                                  /\ next.i = 1
          /\ SmsSend(t) =>
                /\ serial_open =>
                      /\ serial_out' # <<>>
                      /\ serial_out'[Len(serial_out')].cmd = "gsm_sms"
                      /\ serial_out'[Len(serial_out')].number = m.list[m.i].number
                /\ m.i < Len(m.list) =>
                      todo'[t] # <<>> /\ next.op = "sms_send" /\ next.i = m.i + 1]_vars

\* the calls _handle_manual_trigger makes for the action the control loop
\* takes from the queue on this step of thread t (the stale-alert check of
\* the pass follows them)
Handled(t) == SubSeq(todo'[t], 1, Len(todo'[t]) - 1)

\* the levels of the set_alert calls among them
LevelsSet(t) ==
    LET s == SelectSeq(Handled(t), LAMBDA m : m.op = "set_alert")
    IN [i \in DOMAIN s |-> s[i].state]

\* the categories of the GSM emergency sequences among them
SequencesRun(t) ==
    LET s == SelectSeq(Handled(t), LAMBDA m : m.op = "gsm")
    IN [i \in DOMAIN s |-> s[i].category]

\* the _send_gsm_message calls among them
MessagesSent(t) == SelectSeq(Handled(t), LAMBDA m : m.op = "sms")

\* C30: the pass of the control loop that takes a manual action from the
\* queue handles it by its type: call_fire runs the GSM sequence for fire and
\* sets DANGER, call_police runs it for general and sets CALLING,
\* earthquake_alert runs it for debris and sets EVACUATE, sms_broadcast sends
\* the SMS and neither sets the alert nor runs a GSM sequence, set_safe sets
\* SAFE.
C30_ManualActionDispatch ==
    [][\A t \in Threads :
          (ControlLoopTop(t) /\ manual_triggers # <<>>) =>
             LET type == Head(manual_triggers).type IN
             /\ manual_triggers' = Tail(manual_triggers)
             /\ type = "call_fire" =>
                   LevelsSet(t) = <<DANGER>> /\ SequencesRun(t) = <<"fire">>
             /\ type = "call_police" =>
                   LevelsSet(t) = <<CALLING>> /\ SequencesRun(t) = <<"general">>
             /\ type = "earthquake_alert" =>
                   LevelsSet(t) = <<EVACUATE>> /\ SequencesRun(t) = <<"debris">>
             /\ type = "sms_broadcast" =>
                   /\ LevelsSet(t) = <<>>
                   /\ SequencesRun(t) = <<>>
                   /\ Len(MessagesSent(t)) = 1
                   /\ Len(Handled(t)) = 1
             /\ type = "set_safe" =>
                   LevelsSet(t) = <<SAFE>> /\ SequencesRun(t) = <<>>]_vars

\* a call_fire action was handled: the fire contact was called and the alert
\* was set to DANGER with the reason of the manual fire alert
C30_Witness ==
    /\ \E i \in DOMAIN serial_out :
          serial_out[i].cmd = "gsm_call" /\ serial_out[i].number = "+2"
    /\ \E i \in DOMAIN alert_history :
          alert_history[i].to = "DANGER" /\ alert_history[i].reason = "Manual Fire Alert"

\* ------------------------------------------------------------------------
\* The round-robin choice of distribute_task_sync
\* ------------------------------------------------------------------------
\* the vision worker with its cameras and a fleet of MaxPool workers
PoolInit ==
    /\ InitCoordinator
    /\ InitFleet([w \in PoolWorkers |-> w])

PoolNext ==
    \/ \E t \in Threads : FleetStep(t)
    \/ \E w \in WorkerIds : WorkerReply(w)

PoolSpec == PoolInit /\ [][PoolNext]_vars

\* C31: while the workers stay the same, every distribute_task_sync call
\* that finds n eligible workers moves the cursor from its value c to
\* (c + 1) mod n and sends its task to the eligible worker at the new cursor
\* and to nobody else, a registered worker that is Generalist or has the
\* required specialty (any registered worker when none is required); n
\* calls in a row then reach each eligible worker once.
C31_RoundRobinAdvancesByOne ==
    [][\A t \in Threads :
          DistributeTaskSync(t) =>
             LET m == Head(todo[t])
                 required == "None"
                 eligible == SelectSeq(workers,
                                       LAMBDA w : \/ required = "None"
                                                  \/ SpecialtyOf(w) = required
                                                  \/ SpecialtyOf(w) = "Generalist")
                 n == Len(eligible)
             IN /\ current_worker_index' = (current_worker_index + 1) % n
                /\ \A w \in PoolWorkers :
                      task_inbox'[w] # task_inbox[w]
                      => /\ w = eligible[current_worker_index' + 1]
                         /\ Registered(w)]_vars

\* ------------------------------------------------------------------------
\* Results a worker sends more than once
\* ------------------------------------------------------------------------
ResultStep(t) ==
    \/ HandleWorkerResult(t)
    \/ AddDetection(t)
    \/ Put(t)
    \/ Deliver(t)

ResultNext ==
    \/ \E t \in Threads : ResultStep(t)
    \/ \E w \in WorkerIds : WorkerSendsResult(w)

\* the coordinator with one worker registered
ResultInit == InitCoordinator /\ InitFleet(<<1>>)

ResultSpec == ResultInit /\ [][ResultNext]_vars

\* the detection events among evs
DetectionEvents(evs) == SelectSeq(evs, LAMBDA e : e.type = "detection")

\* C32: a result received again changes nothing: the detection ring and the
\* detection events emitted hold the detections of a frame's result once,
\* however often the result was received (every detection of the model comes
\* from a result, and the results of different frames differ in frame_id).
C32_RepeatedResultIsIdempotent ==
    /\ \A i, j \in DOMAIN detections :
          detections[i] = detections[j] => i = j
    /\ \A i, j \in DOMAIN DetectionEvents(event_queue) :
          DetectionEvents(event_queue)[i] = DetectionEvents(event_queue)[j] => i = j

\* ------------------------------------------------------------------------
\* The sensor reading
\* ------------------------------------------------------------------------
ReadingStep(t) ==
    \/ ReadTelemetry(t)
    \/ ProcessLine(t)
    \/ UpdateSensor(t)
    \/ Put(t)
    \/ Deliver(t)
    \/ HandleSensor(t)
    \/ Release(t)

ReadingNext == \E t \in Threads : ReadingStep(t)

ReadingSpec == Init /\ [][ReadingNext]_vars

\* get_sensor()["raining"]
GetSensorRaining == sensor_data.raining

\* C33: the precipitation value of a telemetry line, given under raining or
\* else under water, is the value update_sensor is called with, and after
\* update_sensor get_sensor() returns it as raining, for every value
\* including 0
C33_ReadingIsLatestLine ==
    [][\A t \in Threads :
          /\ ProcessLine(t) =>
                LET line == Head(todo[t]).line
                    value == IF line.raining # None THEN line.raining ELSE line.water
                IN Head(todo'[t]).op = "update_sensor" /\ Head(todo'[t]).raining = value
          /\ UpdateSensor(t) => GetSensorRaining' = Head(todo[t]).raining]_vars

\* ------------------------------------------------------------------------
\* Frame identifiers
\* ------------------------------------------------------------------------
\* C34: the frame_id _process_frame goes on with after its offload decision,
\* the one it passes to distribute_task_sync or records with the detections
\* of local inference, is the value of frame_counter the decision was made
\* on
C34_FrameIdIsCounter ==
    [][\A t \in Cameras :
          ProcessFrameDecide(t) =>
             /\ Head(todo'[t]).op \in {"dispatch", "local"}
             /\ Head(todo'[t]).frame_id = frame_counter]_vars

\* ------------------------------------------------------------------------
\* Emission
\* ------------------------------------------------------------------------
\* C36: no _emit blocks forever: a thread that runs the subscriber callbacks
\* inside _emit leaves _emit again, the callbacks having returned, and a
\* thread that reached the callback loop of an _emit gets through it
C36_EmitNeverBlocksForever ==
    \A t \in Threads :
        /\ (subscriber_lock = t) ~> (subscriber_lock # t)
        /\ HeadOp(t, "deliver") ~> ~HeadOp(t, "deliver")

\* ------------------------------------------------------------------------
\* Two connections of one worker (worker_manager.py:93-171)
\* ------------------------------------------------------------------------
\* the messages of the two-connection model
MaxReconnectOps == 4

\* a message (or the end of stream) arrives on one of the two connections of
\* a worker; each connection has its own handler thread
ConnectionMessage(t) ==
    /\ Idle(t)
    /\ nOps < MaxReconnectOps
    /\ nOps' = nOps + 1
    /\ \E w \in WorkerIds, type \in SessionMessages :
        /\ t \in {HandlerOf(w), RehandlerOf(w)}
        /\ todo' = [todo EXCEPT ![t] = <<OpSession(type, w)>>]
    /\ UNCHANGED <<connVars, pairingVars, lifeVars, subscriberVars, dashVars, registryVars,
                   fleetVars, now, storeVars, dbVars, controlVars, serialVars, ghostVars>>

ReconnectStep(t) ==
    \/ ConnectionMessage(t)
    \/ HandleWorkerSession(t)
    \/ UpdateDevice(t)
    \/ DelWorker(t)
    \/ Put(t)
    \/ Deliver(t)

ReconnectNext == \E t \in Threads : ReconnectStep(t)

ReconnectSpec == Init /\ [][ReconnectNext]_vars

\* handler t reads the end of a connection that registered worker w while
\* the entry of w in the worker map holds another connection
OldConnectionEnds(t, w) ==
    /\ HandleWorkerSession(t)
    /\ Head(todo[t]).worker_id = w
    /\ Head(todo[t]).type = "close"
    /\ worker_id[t] = w
    /\ Registered(w)
    /\ worker_conn[w] \notin {t, "none"}

\* C37: when a worker registered again under the same worker_id on a new
\* connection, the end of its old connection neither removes the new
\* registration from the worker map nor reports the device disconnected
C37_OldConnectionEndKeepsNewRegistration ==
    [][\A t \in Threads, w \in WorkerIds :
          OldConnectionEnds(t, w)
              => \A i \in DOMAIN todo'[t] :
                     /\ todo'[t][i].op # "del_worker"
                     /\ ~(todo'[t][i].op = "update_device" /\ ~todo'[t][i].connected)]_vars

\* C38: the cleanup loop keeps running while the manager runs: neither the
\* scan of the worker map nor the removal of a timed-out worker raises in
\* the cleanup thread
C38_CleanupLoopKeepsRunning == running["fleet"] => "cleanup" \notin crashed

\* C39: distribute_task_sync raises in no camera thread, whether its target
\* worker was removed meanwhile or another dispatch uses the same frame_id:
\* no dispatch reads or deletes a pending entry that is no longer there
C39_DistributeSyncNeverRaises == \A c \in Cameras : c \notin crashed

\* ------------------------------------------------------------------------
\* The contact set of the State Store and the persisted one
\* ------------------------------------------------------------------------
\* the modes a client posts: GsmContact.mode is any string
PostedModes == ContactModes \cup {"email"}

\* the numbers a client deletes: one a posted contact has, one of a contact
\* that is in the store from the start
DeletedContacts == {"+9", "+1"}

\* the requests of the persistence model
MaxPersistOps == 3

\* POST /api/gsm/contacts and DELETE /api/gsm/contacts/{number}: the
\* endpoints run one at a time on the event loop, the database call first
ApiContactRequest(t) ==
    /\ t = "api"
    /\ Idle(t)
    /\ nOps < MaxPersistOps
    /\ nOps' = nOps + 1
    /\ \/ \E mode \in PostedModes, c \in PostedContacts :
            todo' = [todo EXCEPT ![t] = ApiAddContactSteps(mode, c)]
       \/ \E number \in DeletedContacts :
            todo' = [todo EXCEPT ![t] = ApiDeleteContactSteps(number, GetGsmContacts)]
    /\ UNCHANGED <<connVars, pairingVars, lifeVars, subscriberVars, dashVars, registryVars,
                   fleetVars, now, storeVars, dbVars, controlVars, serialVars, ghostVars>>

PersistStep(t) ==
    \/ ApiContactRequest(t)
    \/ DbGsmNumber(t)
    \/ AddGsmContact(t)
    \/ DeleteGsmContact(t)
    \/ Put(t)
    \/ Deliver(t)

PersistNext == \E t \in Threads : PersistStep(t)

PersistSpec == Init /\ [][PersistNext]_vars

\* the contacts of a contact set, each with the mode it is kept under
ContactRows(contacts) ==
    UNION {{<<mode, contacts[mode][i]>> : i \in DOMAIN contacts[mode]} : mode \in DOMAIN contacts}

\* thread t is at the database insert or at the store's add of a contact
\* whose mode is neither sms nor call
InvalidAdd(t) ==
    /\ todo[t] # <<>>
    /\ \/ Head(todo[t]).op = "add_contact"
       \/ Head(todo[t]).op = "db_contact" /\ Head(todo[t]).kind = "add"
    /\ Head(todo[t]).mode \notin ContactModes
    /\ DbGsmNumber(t) \/ AddGsmContact(t)

\* C40: between requests the State Store's contact set equals the persisted
\* one, and adding a contact whose mode is neither sms nor call changes
\* neither of them nor the contacts the GSM sequence reads
C40_StoreMatchesPersisted ==
    /\ [](Idle("api") => ContactRows(gsm_contacts) = ContactRows(db_contacts))
    /\ [][\A t \in Threads :
            InvalidAdd(t)
            => /\ gsm_contacts' = gsm_contacts
               /\ ContactRows(db_contacts') = ContactRows(db_contacts)
               /\ DbGetGsmContacts' = DbGetGsmContacts]_vars

====
